---- MODULE Spec2Model ----
(***************************************************************************)
(* Lot / Gain ledger of capgains (src/capgains/models.py).                 *)
(*                                                                         *)
(* The ledger is the three tables Lot, Gain and OfxLog, read and written   *)
(* through one SQLAlchemy session; INVTRAN rows are put there by the OFX   *)
(* import.  A run of calc() dispatches the transactions of a window in     *)
(* (dttrade, id) order, then runs the wash-sale pass, then commits; an     *)
(* exception rolls the session back to the last commit.                    *)
(*                                                                         *)
(* Decimal values are modelled as exact fractions <<n, d>> (d > 0, lowest  *)
(* terms).  The 28-digit rounding of decimal.Decimal is not modelled; the  *)
(* inputs are whole numbers, for which math.copysign's float is exact.     *)
(* Dates are whole days.  None is 0 (ids and dates start at 1).            *)
(***************************************************************************)
EXTENDS Integers, Sequences, FiniteSets

(***************************************************************************)
(* Bounds of the model.                                                    *)
(***************************************************************************)
MaxTrans == 3
MaxUnits == 2

(***************************************************************************)
(* Program constants.                                                      *)
(***************************************************************************)
WashDays == 30
None == 0

(***************************************************************************)
(* Decimal arithmetic.                                                     *)
(***************************************************************************)
Abs(n) == IF n < 0 THEN -n ELSE n

RECURSIVE GCD(_, _)
GCD(a, b) == IF b = 0 THEN a ELSE GCD(b, a % b)

Norm(n, d) ==
    LET g == GCD(Abs(n), Abs(d))
        s == IF d < 0 THEN -1 ELSE 1
    IN  IF n = 0 THEN <<0, 1>> ELSE <<(s * n) \div g, (s * d) \div g>>

Decimal(n) == <<n, 1>>
Zero == <<0, 1>>
RAdd(a, b) == Norm(a[1] * b[2] + b[1] * a[2], a[2] * b[2])
RNeg(a) == <<-a[1], a[2]>>
RSub(a, b) == RAdd(a, RNeg(b))
RMul(a, b) == Norm(a[1] * b[1], a[2] * b[2])
RDiv(a, b) == Norm(a[1] * b[2], a[2] * b[1])
RAbs(a) == <<Abs(a[1]), a[2]>>
RLt(a, b) == a[1] * b[2] < b[1] * a[2]
RLe(a, b) == a[1] * b[2] <= b[1] * a[2]
RSign(a) == IF a[1] > 0 THEN 1 ELSE IF a[1] < 0 THEN -1 ELSE 0

RECURSIVE RSum(_)
RSum(seq) == IF seq = <<>> THEN Zero ELSE RAdd(Head(seq), RSum(Tail(seq)))

\* math.copysign(min(abs(x), abs(y)), x), back to Decimal
copysignmin(x, y) ==
    LET m == IF RLe(RAbs(x), RAbs(y)) THEN RAbs(x) ELSE RAbs(y)
    IN  IF RSign(x) < 0 THEN RNeg(m) ELSE m

(***************************************************************************)
(* Accounts, securities and the transactions the import can deliver.       *)
(***************************************************************************)
Accounts == {1, 2}
brokerid(a) == IF a = 1 THEN "4705" ELSE "2222"
X == 1
Y == 2
Securities == {X, Y}
uniqueid(sec) == IF sec = X THEN "X" ELSE "Y"
Dates == {1, 31, 32}

NoMemo == [text |-> "", paren |-> ""]

Tx(kind, a, sec, u, tot, ou, nu, num, den, memo) ==
    [kind |-> kind, acctfrom |-> a, secinfo |-> sec, units |-> u, total |-> tot,
     oldunits |-> ou, newunits |-> nu, numerator |-> num, denominator |-> den,
     memo |-> memo, dttrade |-> None]

TradeUnits == ((0 - MaxUnits) .. MaxUnits) \ {0}

\* buys pay (total < 0), sells receive (total > 0); the last one is a
\* malformed record: a buy booked with a receipt
Trades ==
    {Tx("INVBUYSELL", 1, X, ut[1], IF ut[1] > 0 THEN 0 - ut[2] ELSE ut[2], 0, 0, 0, 0, NoMemo) :
        ut \in (TradeUnits \X {2, 6}) \ {<<MaxUnits, 2>>, <<0 - MaxUnits, 6>>}}
    \cup {Tx("INVBUYSELL", 2, X, 1, -6, 0, 0, 0, 0, NoMemo),
          Tx("INVBUYSELL", 1, X, 1, 2, 0, 0, 0, 0, NoMemo)}

Retofcaps ==
    {Tx("RETOFCAP", 1, X, 0, 8, 0, 0, 0, 0, NoMemo)}

Splits ==
    {Tx("SPLIT", 1, X, 0, 0, 1, 2, 2, 1, NoMemo),
     Tx("SPLIT", 1, X, 0, 0, 1, 2, 3, 1, NoMemo)}

Transfers ==
    {Tx("TRANSFER", 1, X, -1, 0, 0, 0, 0, 0, [text |-> "reorg", paren |-> "X"]),
     Tx("TRANSFER", 1, Y, 2, 0, 0, 0, 0, 0, [text |-> "reorg", paren |-> "Y"])}

Incomes ==
    {Tx("INCOME", 1, X, 0, 2, 0, 0, 0, 0, [text |-> "div", paren |-> "Return of Capital"]),
     Tx("INCOME", 1, X, 0, 2, 0, 0, 0, 0, [text |-> "div", paren |-> ""])}

Expenses ==
    {Tx("INVEXPENSE", 1, X, 0, -2, 0, 0, 0, 0, [text |-> "div", paren |-> ""])}

Catalog == Trades \cup Retofcaps \cup Splits \cup Transfers \cup Incomes \cup Expenses

\* calc() as the command line runs it: no --dtstart, no --dtend
NoWindow == {<<None, None>>}
\* no run of calc() has completed on the rows now in INVTRAN
NoCalc == <<-1, -1>>
datetime_min == 0
datetime_max == 1000

(***************************************************************************)
(* State.                                                                  *)
(***************************************************************************)
VARIABLES
    invtrans,   \* the INVTRAN table: row id = index
    lots,       \* the session's view of table Lot: row id = index
    gains,      \* the session's view of table Gain
    ofxlog,     \* the session's view of table OfxLog: invtran ids, in insertion order
    db,         \* what the database holds since the last commit
    db0,        \* what the database held when the current run began (db when idle)
    pc,         \* "idle", "ingest" (Lot.doInvtrans) or "wash" (Gain.doWashSales)
    window,     \* <<dtstart, dtend>> of the current run
    queue,      \* invtran ids Lot.doInvtrans has still to dispatch
    washq,      \* gain ids Gain.doWashSales has still to evaluate
    lastcalc    \* the window of the last run, if it committed and nothing was
                \* imported since; NoCalc otherwise

vars == <<invtrans, lots, gains, ofxlog, db, db0, pc, window, queue, washq, lastcalc>>

Sess == [lots |-> lots, gains |-> gains, ofxlog |-> ofxlog]
EmptyLedger == [lots |-> <<>>, gains |-> <<>>, ofxlog |-> <<>>]

Range(seq) == {seq[i] : i \in DOMAIN seq}

(***************************************************************************)
(* Lot                                                                     *)
(***************************************************************************)
Lot(account, security, units, cost, washcost, dtopen, opener, dtstart, starter, dtend, ender, dtclose, closer, predecessor) ==
    [account |-> account, security |-> security, units |-> units, cost |-> cost,
     washcost |-> washcost, dtopen |-> dtopen, opener |-> opener,
     dtstart |-> dtstart, starter |-> starter, dtend |-> dtend, ender |-> ender,
     dtclose |-> dtclose, closer |-> closer, predecessor |-> predecessor]

Gain(lot, transaction, proceeds) ==
    [lot |-> lot, transaction |-> transaction, proceeds |-> proceeds, washloss |-> Zero]

unitCost(lot) == RDiv(lot.cost, lot.units)

\* ORDER BY dtopen DESC, id DESC: what a last-in-first-out walk would read
RECURSIVE order_by_desc(_, _)
order_by_desc(ls, S) ==
    IF S = {} THEN <<>>
    ELSE LET m == CHOOSE i \in S : \A j \in S :
                      \/ ls[i].dtopen > ls[j].dtopen
                      \/ ls[i].dtopen = ls[j].dtopen /\ i >= j
         IN  <<m>> \o order_by_desc(ls, S \ {m})

\* ORDER BY dtopen, id (the wash-sale queries order by dtopen alone; SQLite
\* returns equal keys in rowid order)
RECURSIVE order_by(_, _)
order_by(ls, S) ==
    IF S = {} THEN <<>>
    ELSE LET m == CHOOSE i \in S : \A j \in S :
                      \/ ls[i].dtopen < ls[j].dtopen
                      \/ ls[i].dtopen = ls[j].dtopen /\ i <= j
         IN  <<m>> \o order_by(ls, S \ {m})

\* asOf with "dtend >= dtasof": a lot still counts on the day it is ended
asOfInclusive(ls, dtasof, account, security) ==
    order_by(ls, {i \in DOMAIN ls :
        /\ ls[i].dtstart <= dtasof
        /\ (ls[i].dtend = None \/ ls[i].dtend >= dtasof)
        /\ (account # None => ls[i].account = account)
        /\ (security # None => ls[i].security = security)})

asOf(ls, dtasof, account, security) ==
    order_by(ls, {i \in DOMAIN ls :
        /\ ls[i].dtstart <= dtasof
        /\ (ls[i].dtend = None \/ ls[i].dtend > dtasof)
        /\ (account # None => ls[i].account = account)
        /\ (security # None => ls[i].security = security)})

\* longsAsOf without "units > 0"
longsAndShortsAsOf(ls, dtasof, account, security) == asOf(ls, dtasof, account, security)

longsAsOf(ls, dtasof, account, security) ==
    SelectSeq(asOf(ls, dtasof, account, security), LAMBDA i : RSign(ls[i].units) > 0)

\* table Lot without its CHECK constraints
NoCheckConstraint(lot) == TRUE

\* the CHECK constraints of table Lot, raised by the flush that writes the row
CheckConstraint(lot) ==
    /\ lot.units # Zero
    /\ RSign(lot.units) * RSign(lot.cost) >= 0

(***************************************************************************)
(* OfxLog                                                                  *)
(***************************************************************************)
\* a get_or_create that does not look the transaction up first
always_create(log, i) == [created |-> TRUE, ofxlog |-> Append(log, i)]

get_or_create(log, i) ==
    IF i \in Range(log)
    THEN [created |-> FALSE, ofxlog |-> log]
    ELSE [created |-> TRUE, ofxlog |-> Append(log, i)]

(***************************************************************************)
(* A handler's outcome: the session after it, whether it raised, and the   *)
(* session as of a DBSession.commit() it made on the way (<<>> if none).   *)
(***************************************************************************)
Ok(s) == [err |-> FALSE, s |-> s, commit |-> <<>>]
Raise(s) == [err |-> TRUE, s |-> s, commit |-> <<>>]

(***************************************************************************)
(* Lot.trade                                                               *)
(***************************************************************************)
\* the walk with the residual priced after "lot.units = -units": unitCost
\* then divides by the closed units
RECURSIVE tradeWalkLateCost(_, _, _)
tradeWalkLateCost(openLots, i, w) ==
    IF openLots = <<>> \/ w.units = Zero THEN w
    ELSE
    LET invtran == invtrans[i]
        id == Head(openLots)
        lot == w.s.lots[id]
        whole == RLe(RAbs(lot.units), RAbs(w.units))
        unitsOpen == RAdd(w.units, lot.units)
        costOpen == RMul(unitsOpen, RDiv(lot.cost, RNeg(w.units)))
        openLot == Lot(lot.account, lot.security, unitsOpen, costOpen, Zero,
                       lot.dtopen, lot.opener, lot.dtstart, lot.starter,
                       None, None, None, None, None)
        s1 == IF whole THEN w.s
              ELSE [w.s EXCEPT
                      !.lots = Append([@ EXCEPT ![id].units = RNeg(w.units),
                                                ![id].cost = RSub(lot.cost, costOpen)],
                                      openLot)]
        lot1 == s1.lots[id]
        proceeds == RMul(RDiv(lot1.units, Decimal(invtran.units)),
                         Decimal(0 - invtran.total))
        s2 == [s1 EXCEPT
                 !.lots[id].dtclose = invtran.dttrade,
                 !.lots[id].closer = i,
                 !.lots[id].dtend = invtran.dttrade,
                 !.lots[id].ender = i,
                 !.gains = Append(@, Gain(id, i, proceeds))]
    IN  tradeWalkLateCost(Tail(openLots), i,
                  [s |-> s2,
                   units |-> IF whole THEN unitsOpen ELSE Zero,
                   commit |-> IF whole THEN w.commit ELSE <<s1>>])

\* the FIFO walk of Lot.trade with the proceeds computed on the lot's units
\* before the split branch reduces them
RECURSIVE tradeWalkProceedsBefore(_, _, _)
tradeWalkProceedsBefore(openLots, i, w) ==
    IF openLots = <<>> \/ w.units = Zero THEN w
    ELSE
    LET invtran == invtrans[i]
        id == Head(openLots)
        lot == w.s.lots[id]
        whole == RLe(RAbs(lot.units), RAbs(w.units))
        unitsOpen == RAdd(w.units, lot.units)
        costOpen == RMul(unitsOpen, unitCost(lot))
        openLot == Lot(lot.account, lot.security, unitsOpen, costOpen, Zero,
                       lot.dtopen, lot.opener, lot.dtstart, lot.starter,
                       None, None, None, None, None)
        s1 == IF whole THEN w.s
              ELSE [w.s EXCEPT
                      !.lots = Append([@ EXCEPT ![id].units = RNeg(w.units),
                                                ![id].cost = RSub(lot.cost, costOpen)],
                                      openLot)]
        proceeds == RMul(RDiv(lot.units, Decimal(invtran.units)),
                         Decimal(0 - invtran.total))
        s2 == [s1 EXCEPT
                 !.lots[id].dtclose = invtran.dttrade,
                 !.lots[id].closer = i,
                 !.lots[id].dtend = invtran.dttrade,
                 !.lots[id].ender = i,
                 !.gains = Append(@, Gain(id, i, proceeds))]
    IN  tradeWalkProceedsBefore(Tail(openLots), i,
                  [s |-> s2,
                   units |-> IF whole THEN unitsOpen ELSE Zero,
                   commit |-> IF whole THEN w.commit ELSE <<s1>>])

\* the FIFO walk of Lot.trade over the lots the query returned: w is
\* [s, units, commit]
RECURSIVE tradeWalk(_, _, _)
tradeWalk(openLots, i, w) ==
    IF openLots = <<>> \/ w.units = Zero THEN w
    ELSE
    LET invtran == invtrans[i]
        id == Head(openLots)
        lot == w.s.lots[id]
        whole == RLe(RAbs(lot.units), RAbs(w.units))
        unitsOpen == RAdd(w.units, lot.units)
        costOpen == RMul(unitsOpen, unitCost(lot))
        openLot == Lot(lot.account, lot.security, unitsOpen, costOpen, Zero,
                       lot.dtopen, lot.opener, lot.dtstart, lot.starter,
                       None, None, None, None, None)
        \* the session at the DBSession.commit() of the split branch
        s1 == IF whole THEN w.s
              ELSE [w.s EXCEPT
                      !.lots = Append([@ EXCEPT ![id].units = RNeg(w.units),
                                                ![id].cost = RSub(lot.cost, costOpen)],
                                      openLot)]
        lot1 == s1.lots[id]
        proceeds == RMul(RDiv(lot1.units, Decimal(invtran.units)),
                         Decimal(0 - invtran.total))
        s2 == [s1 EXCEPT
                 !.lots[id].dtclose = invtran.dttrade,
                 !.lots[id].closer = i,
                 !.lots[id].dtend = invtran.dttrade,
                 !.lots[id].ender = i,
                 !.gains = Append(@, Gain(id, i, proceeds))]
    IN  tradeWalk(Tail(openLots), i,
                  [s |-> s2,
                   units |-> IF whole THEN unitsOpen ELSE Zero,
                   commit |-> IF whole THEN w.commit ELSE <<s1>>])

\* Lot.trade with the new lot's cost in proportion to the units it opens
tradeProRataCost(s, i) ==
    LET invtran == invtrans[i]
        t == get_or_create(s.ofxlog, i)
    IN  IF ~t.created THEN Ok(s)
        ELSE
        LET s0 == [s EXCEPT !.ofxlog = t.ofxlog]
            openLots == SelectSeq(
                asOf(s0.lots, invtran.dttrade, invtran.acctfrom, invtran.secinfo),
                LAMBDA l : RSign(s0.lots[l].units) * invtran.units < 0)
            w == tradeWalk(openLots, i,
                           [s |-> s0, units |-> Decimal(invtran.units), commit |-> <<>>])
            newLot == Lot(invtran.acctfrom, invtran.secinfo, w.units,
                          RMul(RDiv(w.units, Decimal(invtran.units)),
                               Decimal(0 - invtran.total)), Zero,
                          invtran.dttrade, i, invtran.dttrade, i,
                          None, None, None, None, None)
        IN  [err |-> FALSE,
             s |-> IF w.units # Zero
                   THEN [w.s EXCEPT !.lots = Append(@, newLot)]
                   ELSE w.s,
             commit |-> w.commit]

trade(s, i) ==
    LET invtran == invtrans[i]
        t == get_or_create(s.ofxlog, i)
    IN  IF ~t.created THEN Ok(s)
        ELSE
        LET s0 == [s EXCEPT !.ofxlog = t.ofxlog]
            openLots == SelectSeq(
                asOf(s0.lots, invtran.dttrade, invtran.acctfrom, invtran.secinfo),
                LAMBDA l : RSign(s0.lots[l].units) * invtran.units < 0)
            w == tradeWalk(openLots, i,
                           [s |-> s0, units |-> Decimal(invtran.units), commit |-> <<>>])
            newLot == Lot(invtran.acctfrom, invtran.secinfo, w.units,
                          Decimal(0 - invtran.total), Zero,
                          invtran.dttrade, i, invtran.dttrade, i,
                          None, None, None, None, None)
        IN  [err |-> FALSE,
             s |-> IF w.units # Zero
                   THEN [w.s EXCEPT !.lots = Append(@, newLot)]
                   ELSE w.s,
             commit |-> w.commit]

(***************************************************************************)
(* Lot.returnOfCapital                                                     *)
(***************************************************************************)
\* the loop of Lot.returnOfCapital without "lot.dtend = dtasof"
RECURSIVE retofcapLoopNoEnd(_, _, _, _)
retofcapLoopNoEnd(ids, i, unitRetofcap, s) ==
    IF ids = <<>> THEN s
    ELSE
    LET dtasof == invtrans[i].dttrade
        id == Head(ids)
        lot == s.lots[id]
        adjCost == RSub(lot.cost, RMul(lot.units, unitRetofcap))
        newLot == Lot(lot.account, lot.security, lot.units,
                      IF RLt(adjCost, Zero) THEN Zero ELSE adjCost, lot.washcost,
                      lot.dtopen, lot.opener, dtasof, i,
                      None, None, None, None, id)
        s1 == [s EXCEPT
                 !.lots = Append([@ EXCEPT ![id].ender = i], newLot),
                 !.gains = IF RLt(adjCost, Zero)
                           THEN Append(@, Gain(Len(s.lots) + 1, i, RNeg(adjCost)))
                           ELSE @]
    IN  retofcapLoopNoEnd(Tail(ids), i, unitRetofcap, s1)

\* the loop of Lot.returnOfCapital with the excess booked as a gain on the
\* lot it ends, not on the successor
RECURSIVE retofcapLoopGainOnOld(_, _, _, _)
retofcapLoopGainOnOld(ids, i, unitRetofcap, s) ==
    IF ids = <<>> THEN s
    ELSE
    LET dtasof == invtrans[i].dttrade
        id == Head(ids)
        lot == s.lots[id]
        adjCost == RSub(lot.cost, RMul(lot.units, unitRetofcap))
        newLot == Lot(lot.account, lot.security, lot.units,
                      IF RLt(adjCost, Zero) THEN Zero ELSE adjCost, lot.washcost,
                      lot.dtopen, lot.opener, dtasof, i,
                      None, None, None, None, id)
        s1 == [s EXCEPT
                 !.lots = Append([@ EXCEPT ![id].ender = i, ![id].dtend = dtasof], newLot),
                 !.gains = IF RLt(adjCost, Zero)
                           THEN Append(@, Gain(id, i, RNeg(adjCost)))
                           ELSE @]
    IN  retofcapLoopGainOnOld(Tail(ids), i, unitRetofcap, s1)

RECURSIVE retofcapLoop(_, _, _, _)
retofcapLoop(ids, i, unitRetofcap, s) ==
    IF ids = <<>> THEN s
    ELSE
    LET dtasof == invtrans[i].dttrade
        id == Head(ids)
        lot == s.lots[id]
        costAdj == RMul(lot.units, unitRetofcap)
        adjCost == RSub(lot.cost, costAdj)
        newLot == Lot(lot.account, lot.security, lot.units,
                      IF RLt(adjCost, Zero) THEN Zero ELSE adjCost, lot.washcost,
                      lot.dtopen, lot.opener, dtasof, i,
                      None, None, None, None, id)
        newId == Len(s.lots) + 1
        s1 == [s EXCEPT
                 !.lots = Append([@ EXCEPT ![id].ender = i, ![id].dtend = dtasof], newLot),
                 !.gains = IF RLt(adjCost, Zero)
                           THEN Append(@, Gain(newId, i, RNeg(adjCost)))
                           ELSE @]
    IN  retofcapLoop(Tail(ids), i, unitRetofcap, s1)

\* Lot.returnOfCapital without "assert totalUnits": with no long units it
\* has no lot to adjust and returns
returnOfCapitalNoAssert(s, i, checklog) ==
    LET invtran == invtrans[i]
        t == get_or_create(s.ofxlog, i)
        s0 == [s EXCEPT !.ofxlog = t.ofxlog]
        ids == longsAsOf(s0.lots, invtran.dttrade, None, invtran.secinfo)
        totalUnits == RSum([k \in DOMAIN ids |-> s0.lots[ids[k]].units])
    IN  IF checklog /\ ~t.created THEN Ok(s)
        ELSE IF totalUnits = Zero THEN Ok(s0)
        ELSE Ok(retofcapLoop(ids, i, RDiv(Decimal(invtran.total), totalUnits), s0))

returnOfCapital(s, i, checklog) ==
    LET invtran == invtrans[i]
        t == get_or_create(s.ofxlog, i)
        s0 == [s EXCEPT !.ofxlog = t.ofxlog]
        ids == longsAsOf(s0.lots, invtran.dttrade, None, invtran.secinfo)
        totalUnits == RSum([k \in DOMAIN ids |-> s0.lots[ids[k]].units])
    IN  IF checklog /\ ~t.created THEN Ok(s)
        ELSE IF totalUnits = Zero THEN Raise(s0)
        ELSE Ok(retofcapLoop(ids, i, RDiv(Decimal(invtran.total), totalUnits), s0))

(***************************************************************************)
(* Lot.split                                                               *)
(***************************************************************************)
\* abs(x) < Decimal('0.00000001')
Within(x) == Abs(x[1]) <= (x[2] - 1) \div 100000000

\* the loop of Lot.split with the successor opened as of the split date
RECURSIVE splitLoopReopen(_, _, _, _)
splitLoopReopen(ids, i, ratio, s) ==
    IF ids = <<>> THEN s
    ELSE
    LET dtasof == invtrans[i].dttrade
        id == Head(ids)
        lot == s.lots[id]
        newLot == Lot(lot.account, lot.security, RMul(lot.units, ratio), lot.cost,
                      lot.washcost, dtasof, i, dtasof, i,
                      None, None, None, None, id)
        s1 == [s EXCEPT
                 !.lots = Append([@ EXCEPT ![id].ender = i, ![id].dtend = dtasof], newLot)]
    IN  splitLoopReopen(Tail(ids), i, ratio, s1)

\* the loop of Lot.split with the successor's dates swapped: opened as of the
\* split date, in force from the start of the lot it succeeds
RECURSIVE splitLoopSwapDates(_, _, _, _)
splitLoopSwapDates(ids, i, ratio, s) ==
    IF ids = <<>> THEN s
    ELSE
    LET dtasof == invtrans[i].dttrade
        id == Head(ids)
        lot == s.lots[id]
        newLot == Lot(lot.account, lot.security, RMul(lot.units, ratio), lot.cost,
                      lot.washcost, dtasof, lot.opener, lot.dtstart, i,
                      None, None, None, None, id)
        s1 == [s EXCEPT
                 !.lots = Append([@ EXCEPT ![id].ender = i, ![id].dtend = dtasof], newLot)]
    IN  splitLoopSwapDates(Tail(ids), i, ratio, s1)

RECURSIVE splitLoop(_, _, _, _)
splitLoop(ids, i, ratio, s) ==
    IF ids = <<>> THEN s
    ELSE
    LET dtasof == invtrans[i].dttrade
        id == Head(ids)
        lot == s.lots[id]
        newLot == Lot(lot.account, lot.security, RMul(lot.units, ratio), lot.cost,
                      lot.washcost, lot.dtopen, lot.opener, dtasof, i,
                      None, None, None, None, id)
        s1 == [s EXCEPT
                 !.lots = Append([@ EXCEPT ![id].ender = i, ![id].dtend = dtasof], newLot)]
    IN  splitLoop(Tail(ids), i, ratio, s1)

\* Lot.split on the long lots only
splitLongsOnly(s, i) ==
    LET invtran == invtrans[i]
        t == get_or_create(s.ofxlog, i)
        s0 == [s EXCEPT !.ofxlog = t.ofxlog]
        ratio == RDiv(Decimal(invtran.newunits), Decimal(invtran.oldunits))
        ids == longsAsOf(s0.lots, invtran.dttrade, None, invtran.secinfo)
        newUnits == RSum([k \in DOMAIN ids |-> RMul(s0.lots[ids[k]].units, ratio)])
    IN  IF ~t.created THEN Ok(s)
        ELSE IF ratio # RDiv(Decimal(invtran.numerator), Decimal(invtran.denominator))
        THEN Raise(s0)
        ELSE IF ~Within(RSub(newUnits, Decimal(invtran.newunits))) THEN Raise(s0)
        ELSE Ok(splitLoop(ids, i, ratio, s0))

\* Lot.split without the check of newunits/oldunits against
\* numerator/denominator
splitNoRatioCheck(s, i) ==
    LET invtran == invtrans[i]
        t == get_or_create(s.ofxlog, i)
        s0 == [s EXCEPT !.ofxlog = t.ofxlog]
        ratio == RDiv(Decimal(invtran.newunits), Decimal(invtran.oldunits))
        ids == asOf(s0.lots, invtran.dttrade, None, invtran.secinfo)
        newUnits == RSum([k \in DOMAIN ids |-> RMul(s0.lots[ids[k]].units, ratio)])
    IN  IF ~t.created THEN Ok(s)
        ELSE IF ~Within(RSub(newUnits, Decimal(invtran.newunits))) THEN Raise(s0)
        ELSE Ok(splitLoop(ids, i, ratio, s0))

split(s, i) ==
    LET invtran == invtrans[i]
        t == get_or_create(s.ofxlog, i)
        s0 == [s EXCEPT !.ofxlog = t.ofxlog]
        ratio == RDiv(Decimal(invtran.newunits), Decimal(invtran.oldunits))
        ids == asOf(s0.lots, invtran.dttrade, None, invtran.secinfo)
        newUnits == RSum([k \in DOMAIN ids |-> RMul(s0.lots[ids[k]].units, ratio)])
    IN  IF ~t.created THEN Ok(s)
        ELSE IF ratio # RDiv(Decimal(invtran.numerator), Decimal(invtran.denominator))
        THEN Raise(s0)
        ELSE IF ~Within(RSub(newUnits, Decimal(invtran.newunits))) THEN Raise(s0)
        ELSE Ok(splitLoop(ids, i, ratio, s0))

(***************************************************************************)
(* IBKR.doTransfer                                                         *)
(***************************************************************************)
\* the loop of IBKR.doTransfer with the units carried over unscaled
RECURSIVE transferLoopKeepUnits(_, _, _, _, _, _)
transferLoopKeepUnits(ids, i, transferOut, transferIn, ratio, s) ==
    IF ids = <<>> THEN s
    ELSE
    LET id == Head(ids)
        lot == s.lots[id]
        newLot == Lot(lot.account, invtrans[transferIn].secinfo, lot.units,
                      lot.cost, lot.washcost, lot.dtopen, lot.opener,
                      invtrans[i].dttrade, transferIn,
                      None, None, None, None, id)
        s1 == [s EXCEPT
                 !.lots = Append([@ EXCEPT ![id].ender = transferOut,
                                           ![id].dtend = invtrans[i].dttrade], newLot)]
    IN  transferLoopKeepUnits(Tail(ids), i, transferOut, transferIn, ratio, s1)

RECURSIVE transferLoop(_, _, _, _, _, _)
transferLoop(ids, i, transferOut, transferIn, ratio, s) ==
    IF ids = <<>> THEN s
    ELSE
    LET id == Head(ids)
        lot == s.lots[id]
        newLot == Lot(lot.account, invtrans[transferIn].secinfo, RMul(lot.units, ratio),
                      lot.cost, lot.washcost, lot.dtopen, lot.opener,
                      invtrans[i].dttrade, transferIn,
                      None, None, None, None, id)
        s1 == [s EXCEPT
                 !.lots = Append([@ EXCEPT ![id].ender = transferOut,
                                           ![id].dtend = invtrans[i].dttrade], newLot)]
    IN  transferLoop(Tail(ids), i, transferOut, transferIn, ratio, s1)

\* transferMemoRE matches "<memo> (<ticker>, <secname>, <uniqueid>)"
transferMemoRE(memo) == memo.text # "" /\ memo.paren \in {uniqueid(sec) : sec \in Securities}

doTransfer(s, i) ==
    LET invtran == invtrans[i]
        t == get_or_create(s.ofxlog, i)
        s0 == [s EXCEPT !.ofxlog = t.ofxlog]
        twins == {j \in DOMAIN invtrans :
                    /\ invtrans[j].kind = "TRANSFER"
                    /\ j # i
                    /\ invtrans[j].acctfrom = invtran.acctfrom
                    /\ invtrans[j].dttrade = invtran.dttrade
                    /\ invtrans[j].memo.text = invtran.memo.text}
        j == CHOOSE k \in twins : TRUE
        twin == invtrans[j]
        t2 == get_or_create(s0.ofxlog, j)
        s1 == [s0 EXCEPT !.ofxlog = t2.ofxlog]
        lotsA == asOf(s1.lots, invtran.dttrade, invtran.acctfrom, invtran.secinfo)
        unitsA == RSum([k \in DOMAIN lotsA |-> s1.lots[lotsA[k]].units])
        lotsB == asOf(s1.lots, invtran.dttrade, invtran.acctfrom, twin.secinfo)
        unitsB == RSum([k \in DOMAIN lotsB |-> s1.lots[lotsB[k]].units])
    IN  IF ~t.created THEN Ok(s)
        ELSE IF ~transferMemoRE(invtran.memo) \/ invtran.memo.paren # uniqueid(invtran.secinfo)
        THEN Raise(s0)
        ELSE IF Cardinality(twins) > 1 THEN Raise(s0)
        ELSE IF twins = {} THEN Ok(s0)
        ELSE IF ~t2.created THEN Raise(s1)
        ELSE IF ~(invtran.units * twin.units < 0) THEN Raise(s1)
        ELSE IF lotsA # <<>> /\ Decimal(invtran.units) = RNeg(unitsA)
        THEN Ok(transferLoop(lotsA, i, i, j, RDiv(Decimal(twin.units), unitsA), s1))
        ELSE IF lotsB = <<>> THEN Ok(s1)
        ELSE IF unitsB # RNeg(Decimal(twin.units)) THEN Raise(s1)
        ELSE Ok(transferLoop(lotsB, i, j, i, RDiv(Decimal(invtran.units), unitsB), s1))

(***************************************************************************)
(* IBKR.doIncome                                                           *)
(***************************************************************************)
\* str.lower() on the memo strings of the catalogues
lower(str) ==
    IF str \in {"Return of Capital", "RETURN OF CAPITAL"} THEN "return of capital"
    ELSE str

\* 'return of capital' in invtran.memo.lower(): in the parentheses or in the
\* text before them
phrase(memo) ==
    \/ lower(memo.paren) = "return of capital"
    \/ lower(memo.text) \in {"return of capital", "div return of capital"}

\* retofcapMemoRE matches "<memo> (Return of Capital)", ignoring case
retofcapMemoRE(memo) == memo.text # "" /\ lower(memo.paren) = "return of capital"

\* memo LIKE pattern || '%': the strings of the catalogues that begin with
\* another one
like(memo, pattern) == memo.text = pattern \/ <<pattern, memo.text>> \in {<<"div", "dividend">>}

\* IBKR.doIncome without "assert match"
doIncomeNoAssert(s, i) ==
    LET invtran == invtrans[i]
        t == get_or_create(s.ofxlog, i)
        s0 == [s EXCEPT !.ofxlog = t.ofxlog]
        reversals == {j \in DOMAIN invtrans :
                        /\ invtrans[j].kind = "INVEXPENSE"
                        /\ invtrans[j].dttrade = invtran.dttrade
                        /\ invtrans[j].total = 0 - invtran.total
                        /\ like(invtrans[j].memo, invtran.memo.text)}
        reversal == CHOOSE j \in reversals : \A k \in reversals : j <= k
    IN  IF ~t.created THEN Ok(s)
        ELSE IF ~phrase(invtran.memo) THEN Ok(s0)
        ELSE IF reversals # {}
        THEN Ok([s0 EXCEPT !.ofxlog = get_or_create(s0.ofxlog, reversal).ofxlog])
        ELSE returnOfCapital(s0, i, FALSE)

doIncome(s, i) ==
    LET invtran == invtrans[i]
        t == get_or_create(s.ofxlog, i)
        s0 == [s EXCEPT !.ofxlog = t.ofxlog]
        reversals == {j \in DOMAIN invtrans :
                        /\ invtrans[j].kind = "INVEXPENSE"
                        /\ invtrans[j].dttrade = invtran.dttrade
                        /\ invtrans[j].total = 0 - invtran.total
                        /\ like(invtrans[j].memo, invtran.memo.text)}
        reversal == CHOOSE j \in reversals : \A k \in reversals : j <= k
    IN  IF ~t.created THEN Ok(s)
        ELSE IF ~phrase(invtran.memo) THEN Ok(s0)
        ELSE IF ~retofcapMemoRE(invtran.memo) THEN Raise(s0)
        ELSE IF reversals # {}
        THEN Ok([s0 EXCEPT !.ofxlog = get_or_create(s0.ofxlog, reversal).ofxlog])
        ELSE returnOfCapital(s0, i, FALSE)

(***************************************************************************)
(* Gain                                                                    *)
(***************************************************************************)
value(s, g) == RSub(s.gains[g].proceeds, s.lots[s.gains[g].lot].cost)

\* lot.gains: the gains of a lot, in id order
lotGains(s, id) == SelectSeq([k \in DOMAIN s.gains |-> k], LAMBDA k : s.gains[k].lot = id)

\* gain.units / -transaction.units * transaction.total
tradeProceeds(units, transaction) ==
    RMul(RDiv(units, Decimal(0 - transaction.units)), Decimal(transaction.total))

\* the gains Gain.doWashSales evaluates, in the order it evaluates them
doWashSales(s, dtstart, dtend) ==
    LET start == IF dtstart = None THEN datetime_min ELSE dtstart
        end == IF dtend = None THEN datetime_max ELSE dtend
        sel == {g \in DOMAIN s.gains :
                  /\ s.gains[g].washloss = Zero
                  /\ s.lots[s.gains[g].lot].dtclose # None
                  /\ s.lots[s.gains[g].lot].dtopen > start
                  /\ s.lots[s.gains[g].lot].dtopen <= end}
        key == [g \in DOMAIN s.gains |-> [dtopen |-> s.lots[s.gains[g].lot].dtopen]]
    IN  order_by(key, sel)

\* the replacementLots query without "Lot.account == self.lot.account"
replacementLotsAnyAccount(s, lossLot, sign) ==
    order_by(s.lots, {l \in DOMAIN s.lots :
        /\ l # lossLot
        /\ s.lots[l].security = s.lots[lossLot].security
        /\ RSign(s.lots[l].units) * sign > 0
        /\ s.lots[l].washcost = Zero
        /\ s.lots[l].dtopen >= s.lots[lossLot].dtclose - WashDays
        /\ s.lots[l].dtopen <= s.lots[lossLot].dtclose + WashDays})

\* the replacementLots query without its two conditions on Lot.dtopen
replacementLotsAnyDate(s, lossLot, sign) ==
    order_by(s.lots, {l \in DOMAIN s.lots :
        /\ l # lossLot
        /\ s.lots[l].account = s.lots[lossLot].account
        /\ s.lots[l].security = s.lots[lossLot].security
        /\ RSign(s.lots[l].units) * sign > 0
        /\ s.lots[l].washcost = Zero})

\* the replacementLots query of Gain.doWashSale, run on session s
replacementLots(s, lossLot, sign) ==
    order_by(s.lots, {l \in DOMAIN s.lots :
        /\ l # lossLot
        /\ s.lots[l].account = s.lots[lossLot].account
        /\ s.lots[l].security = s.lots[lossLot].security
        /\ RSign(s.lots[l].units) * sign > 0
        /\ s.lots[l].washcost = Zero
        /\ s.lots[l].dtopen >= s.lots[lossLot].dtclose - WashDays
        /\ s.lots[l].dtopen <= s.lots[lossLot].dtclose + WashDays})

\* unwashedLot copying the whole cost of the lot it is split from
unwashedLotWholeCost(lot, units, cost) ==
    Lot(lot.account, lot.security, units, lot.cost, Zero, lot.dtopen, lot.opener,
        lot.dtstart, lot.starter, lot.dtend, lot.ender, lot.dtclose, lot.closer, None)

\* unwashedLot without "dtclose=lot.dtclose, closer=lot.closer"
unwashedLotNoClose(lot, units, cost) ==
    Lot(lot.account, lot.security, units, cost, Zero, lot.dtopen, lot.opener,
        lot.dtstart, lot.starter, lot.dtend, lot.ender, None, None, None)

\* a copy of lot holding other units and cost, as both splits of doWashSale make it
unwashedLot(lot, units, cost) ==
    Lot(lot.account, lot.security, units, cost, Zero, lot.dtopen, lot.opener,
        lot.dtstart, lot.starter, lot.dtend, lot.ender, lot.dtclose, lot.closer, None)

\* the loops over lot.gains that re-price the gains of a lot that was split
\* and give the new lot its share; w is [err, s]
RECURSIVE splitGains(_, _, _, _, _, _)
splitGains(gs, newId, unwashedUnits, self, washedProceeds, w) ==
    IF gs = <<>> \/ w.err THEN w
    ELSE
    LET g == Head(gs)
        gain == w.s.gains[g]
        transaction == invtrans[gain.transaction]
        proceeds == tradeProceeds(w.s.lots[gain.lot].units, transaction)
        unwashedGain == Gain(newId, gain.transaction, tradeProceeds(unwashedUnits, transaction))
    IN  IF transaction.kind # "INVBUYSELL"
        THEN [w EXCEPT !.err = TRUE]
        ELSE IF g = self /\ ~Within(RSub(proceeds, washedProceeds))
        THEN [w EXCEPT !.err = TRUE]
        ELSE splitGains(Tail(gs), newId, unwashedUnits, self, washedProceeds,
                        [w EXCEPT !.s.gains = Append([@ EXCEPT ![g].proceeds = proceeds],
                                                     unwashedGain)])

\* the loop over the replacement lots without "lot.units = washedUnits" and
\* "lot.cost = washedCost" in its split branch
RECURSIVE rollLoopKeepUnits(_, _, _)
rollLoopKeepUnits(ids, unitLoss, w) ==
    IF ids = <<>> \/ w.replacementUnits = Zero \/ w.err THEN w
    ELSE
    LET id == Head(ids)
        lot == w.s.lots[id]
        whole == RLe(RAbs(lot.units), RAbs(w.replacementUnits))
        washedUnits == IF whole THEN lot.units ELSE w.replacementUnits
        unwashedUnits == RSub(lot.units, washedUnits)
        unwashedCost == RMul(unwashedUnits, unitCost(lot))
        washcost == RMul(washedUnits, RNeg(unitLoss))
        newId == Len(w.s.lots) + 1
        s1 == IF whole
              THEN [w.s EXCEPT !.lots[id].washcost = washcost]
              ELSE [w.s EXCEPT
                      !.lots = Append([@ EXCEPT ![id].washcost = washcost],
                                      unwashedLot(lot, unwashedUnits, unwashedCost))]
        w1 == IF whole THEN [err |-> FALSE, s |-> s1]
              ELSE splitGains(lotGains(s1, id), newId, unwashedUnits, None, Zero,
                              [err |-> FALSE, s |-> s1])
    IN  rollLoopKeepUnits(Tail(ids), unitLoss,
                 [err |-> w1.err, s |-> w1.s,
                  replacementUnits |-> RSub(w.replacementUnits, washedUnits),
                  disallowedLoss |-> RAdd(w.disallowedLoss, washcost)])

\* the loop over the replacement lots; w is [err, s, replacementUnits, disallowedLoss]
RECURSIVE rollLoop(_, _, _)
rollLoop(ids, unitLoss, w) ==
    IF ids = <<>> \/ w.replacementUnits = Zero \/ w.err THEN w
    ELSE
    LET id == Head(ids)
        lot == w.s.lots[id]
        whole == RLe(RAbs(lot.units), RAbs(w.replacementUnits))
        washedUnits == IF whole THEN lot.units ELSE w.replacementUnits
        washedCost == RMul(washedUnits, unitCost(lot))
        unwashedUnits == RSub(lot.units, washedUnits)
        unwashedCost == RMul(unwashedUnits, unitCost(lot))
        washcost == RMul(washedUnits, RNeg(unitLoss))
        newId == Len(w.s.lots) + 1
        s1 == IF whole
              THEN [w.s EXCEPT !.lots[id].washcost = washcost]
              ELSE [w.s EXCEPT
                      !.lots = Append([@ EXCEPT ![id].units = washedUnits,
                                                ![id].cost = washedCost,
                                                ![id].washcost = washcost],
                                      unwashedLot(lot, unwashedUnits, unwashedCost))]
        w1 == IF whole THEN [err |-> FALSE, s |-> s1]
              ELSE splitGains(lotGains(s1, id), newId, unwashedUnits, None, Zero,
                              [err |-> FALSE, s |-> s1])
    IN  rollLoop(Tail(ids), unitLoss,
                 [err |-> w1.err, s |-> w1.s,
                  replacementUnits |-> RSub(w.replacementUnits, washedUnits),
                  disallowedLoss |-> RAdd(w.disallowedLoss, washcost)])

doWashSale(s, g) ==
    LET self == s.gains[g]
        id == self.lot
        lot == s.lots[id]
        found == replacementLots(s, id, RSign(lot.units))
        tally == RSum([k \in DOMAIN found |-> s.lots[found[k]].units])
        replacementUnits == copysignmin(tally, lot.units)
        washedUnits == replacementUnits
        unwashedUnits == RSub(lot.units, washedUnits)
        washedCost == RMul(washedUnits, unitCost(lot))
        unwashedCost == RMul(unwashedUnits, unitCost(lot))
        unitProceeds == RDiv(self.proceeds, lot.units)
        washedProceeds == RMul(washedUnits, unitProceeds)
        unitLoss == RDiv(value(s, g), lot.units)
        disallowedLoss == RMul(washedUnits, unitLoss)
        \* the loss lot and its gain, partitioned
        s1 == [s EXCEPT !.lots[id].units = washedUnits,
                        !.lots[id].cost = washedCost,
                        !.gains[g].proceeds = washedProceeds,
                        !.gains[g].washloss = disallowedLoss]
        newId == Len(s.lots) + 1
        s2 == [s1 EXCEPT !.lots = Append(@, unwashedLot(lot, unwashedUnits, unwashedCost))]
        w2 == IF unwashedUnits = Zero THEN [err |-> FALSE, s |-> s1]
              ELSE splitGains(lotGains(s2, id), newId, unwashedUnits, g, washedProceeds,
                              [err |-> FALSE, s |-> s2])
        \* the query runs again for the loop, on the session as it now is
        w3 == rollLoop(replacementLots(w2.s, id, RSign(lot.units)), unitLoss,
                       [err |-> FALSE, s |-> w2.s,
                        replacementUnits |-> replacementUnits,
                        disallowedLoss |-> disallowedLoss])
    IN  IF lot.dtclose = None THEN Ok(s)
        ELSE IF self.washloss # Zero THEN Ok(s)
        ELSE IF ~RLt(value(s, g), Zero) THEN Ok(s)
        ELSE IF lot.closer # self.transaction THEN Ok(s)
        ELSE IF tally = Zero THEN Ok(s)
        ELSE IF ~Within(RSub(RSub(washedProceeds, washedCost), disallowedLoss)) THEN Raise(s)
        ELSE IF w2.err THEN Raise(s)
        ELSE IF w3.err THEN Raise(s)
        ELSE IF w3.replacementUnits # Zero \/ w3.disallowedLoss # Zero THEN Raise(s)
        ELSE Ok(w3.s)

(***************************************************************************)
(* The driver: Lot.doInvtrans, Lot.doInvtran, calc and session_scope       *)
(***************************************************************************)
\* Lot.doInvtran looking the override up by transaction type alone, whatever
\* the account's broker
doInvtranAnyBroker(i) ==
    LET invtran == invtrans[i]
    IN  IF invtran.kind = "TRANSFER" THEN "doTransfer"
        ELSE IF invtran.kind = "INCOME" THEN "doIncome"
        ELSE IF invtran.kind = "INVBUYSELL" THEN "trade"
        ELSE IF invtran.kind = "RETOFCAP" THEN "returnOfCapital"
        ELSE IF invtran.kind = "SPLIT" THEN "split"
        ELSE "return"

\* the handler Lot.doInvtran hands transaction i to
doInvtran(i) ==
    LET invtran == invtrans[i]
        quirk == IF brokerid(invtran.acctfrom) = "4705"
                 THEN (IF invtran.kind = "TRANSFER" THEN "doTransfer"
                       ELSE IF invtran.kind = "INCOME" THEN "doIncome" ELSE "")
                 ELSE ""
    IN  IF quirk # "" THEN quirk
        ELSE IF invtran.kind = "INVBUYSELL" THEN "trade"
        ELSE IF invtran.kind = "RETOFCAP" THEN "returnOfCapital"
        ELSE IF invtran.kind = "SPLIT" THEN "split"
        ELSE "return"

\* ORDER BY dttrade, id of the INVTRAN rows in S
RECURSIVE order_by_dttrade(_)
order_by_dttrade(S) ==
    IF S = {} THEN <<>>
    ELSE LET m == CHOOSE i \in S : \A j \in S :
                      \/ invtrans[i].dttrade < invtrans[j].dttrade
                      \/ invtrans[i].dttrade = invtrans[j].dttrade /\ i <= j
         IN  <<m>> \o order_by_dttrade(S \ {m})

\* Lot.doInvtrans with "INVTRAN.dttrade < dtend"
doInvtransBefore(dtstart, dtend) ==
    LET start == IF dtstart = None THEN datetime_min ELSE dtstart
        end == IF dtend = None THEN datetime_max ELSE dtend
    IN  order_by_dttrade({i \in DOMAIN invtrans :
            invtrans[i].dttrade >= start /\ invtrans[i].dttrade < end})

\* the rows Lot.doInvtrans selects
doInvtrans(dtstart, dtend) ==
    LET start == IF dtstart = None THEN datetime_min ELSE dtstart
        end == IF dtend = None THEN datetime_max ELSE dtend
    IN  order_by_dttrade({i \in DOMAIN invtrans :
            invtrans[i].dttrade >= start /\ invtrans[i].dttrade <= end})

\* session_scope: the effect of a handler's outcome r on the session and the
\* database.  A commit made inside the handler stands; an exception (from
\* the handler, or from the flush of a row that breaks a CHECK constraint)
\* rolls back to the last commit and ends the run.
session_scope(r) ==
    LET committed == IF r.commit # <<>> THEN r.commit[1] ELSE db
        err == r.err \/ \E l \in DOMAIN r.s.lots : ~CheckConstraint(r.s.lots[l])
    IN  /\ db' = committed
        /\ IF err
           THEN /\ lots' = committed.lots
                /\ gains' = committed.gains
                /\ ofxlog' = committed.ofxlog
                /\ pc' = "idle"
                /\ queue' = <<>>
                /\ washq' = <<>>
                /\ window' = <<None, None>>
                /\ db0' = committed
                /\ lastcalc' = NoCalc
           ELSE /\ lots' = r.s.lots
                /\ gains' = r.s.gains
                /\ ofxlog' = r.s.ofxlog
                /\ pc' = pc
                /\ queue' = IF pc = "ingest" THEN Tail(queue) ELSE queue
                /\ washq' = IF pc = "wash" THEN Tail(washq) ELSE washq
                /\ window' = window
                /\ db0' = db0
                /\ lastcalc' = lastcalc
        /\ UNCHANGED invtrans

Init ==
    /\ invtrans = <<>>
    /\ lots = <<>>
    /\ gains = <<>>
    /\ ofxlog = <<>>
    /\ db = EmptyLedger
    /\ db0 = EmptyLedger
    /\ pc = "idle"
    /\ window = <<None, None>>
    /\ queue = <<>>
    /\ washq = <<>>
    /\ lastcalc = NoCalc

\* ofximport: one more INVTRAN row; the stream arrives in date order
ofximport(catalog) ==
    /\ pc = "idle"
    /\ Len(invtrans) < MaxTrans
    /\ \E tx \in catalog, d \in Dates :
        /\ \A j \in DOMAIN invtrans : invtrans[j].dttrade <= d
        /\ invtrans = <<>> => d = 1
        /\ invtrans' = Append(invtrans, [tx EXCEPT !.dttrade = d])
    /\ lastcalc' = NoCalc
    /\ UNCHANGED <<lots, gains, ofxlog, db, db0, pc, window, queue, washq>>

Import == ofximport(Catalog)

\* calc(dtstart, dtend) opens its session and selects the window's rows.
\* The stream is consumed in date order: no row still to be applied is
\* older than a row already applied.
calc(windows) ==
    /\ pc = "idle"
    /\ invtrans # <<>>
    /\ \E w \in windows :
        /\ \A i \in Range(doInvtrans(w[1], w[2])), j \in Range(db.ofxlog) :
              i \notin Range(db.ofxlog) => invtrans[j].dttrade <= invtrans[i].dttrade
        /\ window' = w
        /\ queue' = doInvtrans(w[1], w[2])
    /\ pc' = "ingest"
    /\ db0' = db
    /\ washq' = <<>>
    /\ UNCHANGED <<invtrans, lots, gains, ofxlog, db, lastcalc>>

Calc == calc(NoWindow)

Dispatching(h) == pc = "ingest" /\ queue # <<>> /\ doInvtran(Head(queue)) = h

Trade == Dispatching("trade") /\ session_scope(trade(Sess, Head(queue)))

ReturnOfCapital ==
    Dispatching("returnOfCapital") /\ session_scope(returnOfCapital(Sess, Head(queue), TRUE))

Split == Dispatching("split") /\ session_scope(split(Sess, Head(queue)))

Transfer == Dispatching("doTransfer") /\ session_scope(doTransfer(Sess, Head(queue)))

Income == Dispatching("doIncome") /\ session_scope(doIncome(Sess, Head(queue)))

Unhandled == Dispatching("return") /\ session_scope(Ok(Sess))

\* Lot.doInvtrans is through; Gain.doWashSales runs its query
WashSales ==
    /\ pc = "ingest"
    /\ queue = <<>>
    /\ pc' = "wash"
    /\ washq' = doWashSales(Sess, window[1], window[2])
    /\ UNCHANGED <<invtrans, lots, gains, ofxlog, db, db0, window, queue, lastcalc>>

WashSale ==
    /\ pc = "wash"
    /\ washq # <<>>
    /\ session_scope(doWashSale(Sess, Head(washq)))

\* the session.commit() that ends session_scope
Commit ==
    /\ pc = "wash"
    /\ washq = <<>>
    /\ db' = Sess
    /\ db0' = Sess
    /\ pc' = "idle"
    /\ window' = <<None, None>>
    /\ lastcalc' = window
    /\ UNCHANGED <<invtrans, lots, gains, ofxlog, queue, washq>>

Next ==
    \/ Import
    \/ Calc
    \/ Trade
    \/ ReturnOfCapital
    \/ Split
    \/ Transfer
    \/ Income
    \/ Unhandled
    \/ WashSales
    \/ WashSale
    \/ Commit

Spec == Init /\ [][Next]_vars

(***************************************************************************)
(* The same driver called window by window (calc's args.dtstart and        *)
(* args.dtend), on the trades of a wash-sale history.                      *)
(***************************************************************************)
\* buys of 1, 2 and 5 units, sells of 1, 2 and 3 units below the dearest
\* buy's unit price (a sell with nothing to close opens a short lot, a buy
\* then covers it), a buy in the other account, a buy of the other security,
\* and a return of capital
WashCatalog ==
    {Tx("INVBUYSELL", 1, X, ut[1], ut[2], 0, 0, 0, 0, NoMemo) :
        ut \in {<<1, -6>>, <<2, -6>>, <<1, -2>>, <<5, -15>>,
                <<-1, 2>>, <<-2, 2>>, <<-3, 6>>}}
    \cup {Tx("INVBUYSELL", 2, X, 1, -6, 0, 0, 0, 0, NoMemo),
          Tx("INVBUYSELL", 1, Y, 1, -6, 0, 0, 0, 0, NoMemo)}
    \cup Retofcaps

\* calc up to day 31, calc from day 31 on, and calc without either bound
Windows == {<<None, 31>>, <<31, None>>, <<None, None>>}

ImportW == ofximport(WashCatalog)

CalcW == calc(Windows)

NextW ==
    \/ ImportW
    \/ CalcW
    \/ Trade
    \/ ReturnOfCapital
    \/ WashSales
    \/ WashSale
    \/ Commit

SpecW == Init /\ [][NextW]_vars

(***************************************************************************)
(* The driver on records of every kind from both brokers: the account of   *)
(* broker 4705 has overrides in brokerquirks, the other account has none.  *)
(***************************************************************************)
DispatchCatalog ==
    UNION {{Tx("INVBUYSELL", a, X, 1, -6, 0, 0, 0, 0, NoMemo),
            Tx("RETOFCAP", a, X, 0, 8, 0, 0, 0, 0, NoMemo),
            Tx("SPLIT", a, X, 0, 0, 1, 2, 2, 1, NoMemo),
            Tx("TRANSFER", a, X, -1, 0, 0, 0, 0, 0, [text |-> "reorg", paren |-> "X"]),
            Tx("TRANSFER", a, Y, 2, 0, 0, 0, 0, 0, [text |-> "reorg", paren |-> "Y"]),
            Tx("INCOME", a, X, 0, 2, 0, 0, 0, 0, [text |-> "div", paren |-> "Return of Capital"]),
            Tx("INVEXPENSE", a, X, 0, -2, 0, 0, 0, 0, [text |-> "div", paren |-> ""])} :
           a \in Accounts}
    \cup {Tx("INVBUYSELL", 1, X, -1, 2, 0, 0, 0, 0, NoMemo)}

ImportD == ofximport(DispatchCatalog)

NextD ==
    \/ ImportD
    \/ Calc
    \/ Trade
    \/ ReturnOfCapital
    \/ Split
    \/ Transfer
    \/ Income
    \/ Unhandled
    \/ WashSales
    \/ WashSale
    \/ Commit

SpecD == Init /\ [][NextD]_vars

(***************************************************************************)
(* Lot.dumpCsv and Lot.loadCsv: the commands "lots" and "load" run on the   *)
(* same database, as in testLotCsv.                                        *)
(***************************************************************************)
\* most rows LOT may hold after a load
MaxLots == 4

\* str(datetime), "YYYY-MM-DD HH:MM:SS": the day and the time of day
str(dt) == [date |-> dt, time |-> 0]

\* datetime.strptime(text, '%Y-%m-%d %H:%M:%S')
strptime(text) == text.date

\* int(Decimal): truncation towards zero
int(x) == IF x[1] >= 0 THEN x[1] \div x[2] ELSE 0 - ((0 - x[1]) \div x[2])

\* Lot.dumpCsv(DBSession, csvfile, dtasof), consolidate = False: one row for
\* each lot in force at dtasof; units and cost are written in full
dumpCsv(ls, dtasof) ==
    LET ids == asOf(ls, IF dtasof = None THEN datetime_max ELSE dtasof, None, None)
    IN  [k \in DOMAIN ids |->
            [brokerid |-> brokerid(ls[ids[k]].account),
             acctid |-> ls[ids[k]].account,
             uniqueid |-> uniqueid(ls[ids[k]].security),
             dtopen |-> str(ls[ids[k]].dtopen),
             units |-> ls[ids[k]].units,
             cost |-> ls[ids[k]].cost,
             washcost |-> int(ls[ids[k]].washcost)]]

\* Lot.loadCsv(DBSession, csvfile): the lots made from the rows
loadCsv(csvfile) ==
    [k \in DOMAIN csvfile |->
        LET row == csvfile[k]
            account == CHOOSE a \in Accounts : brokerid(a) = row.brokerid /\ a = row.acctid
            secinfo == CHOOSE sec \in Securities : uniqueid(sec) = row.uniqueid
            dtopen == strptime(row.dtopen)
        IN  Lot(account, secinfo, Norm(row.units[1], row.units[2]),
                Norm(row.cost[1], row.cost[2]), Decimal(row.washcost),
                dtopen, None, dtopen, None, None, None, None, None, None)]

\* the lots of a long position: buys, sells below cost, a return of capital
CsvCatalog ==
    {Tx("INVBUYSELL", 1, X, ut[1], ut[2], 0, 0, 0, 0, NoMemo) :
        ut \in {<<5, -15>>, <<1, -6>>, <<-2, 2>>, <<-1, 2>>}}
    \cup {Tx("INVBUYSELL", 2, Y, 1, -6, 0, 0, 0, 0, NoMemo)}
    \cup Retofcaps

ImportC == ofximport(CsvCatalog)

\* dump(args) then loadCsv(args) on the dumped file
DumpLoad ==
    /\ pc = "idle"
    /\ \E dtasof \in Dates \cup {None} :
        LET new == loadCsv(dumpCsv(lots, dtasof))
        IN  /\ new # <<>>
            /\ Len(lots) + Len(new) <= MaxLots
            /\ lots' = lots \o new
            /\ db' = [db EXCEPT !.lots = lots \o new]
            /\ db0' = [db EXCEPT !.lots = lots \o new]
    /\ lastcalc' = NoCalc
    /\ UNCHANGED <<invtrans, gains, ofxlog, pc, window, queue, washq>>

NextC ==
    \/ ImportC
    \/ Calc
    \/ Trade
    \/ ReturnOfCapital
    \/ WashSales
    \/ WashSale
    \/ Commit
    \/ DumpLoad

SpecC == Init /\ [][NextC]_vars

(***************************************************************************)
(* Gain.isLongTerm, on positions held for a year and a day more or less.   *)
(***************************************************************************)
\* Gain.dtopen
dtopen(s, g) == s.lots[s.gains[g].lot].dtopen

\* Gain.dtclose
dtclose(g) == invtrans[gains[g].transaction].dttrade

\* Gain.isLongTerm under ">= 365"
isLongTermFromAYear(s, g) ==
    IF RSign(s.lots[s.gains[g].lot].units) < 0 THEN FALSE
    ELSE dtclose(g) - dtopen(s, g) >= 365

\* Gain.isLongTerm
isLongTerm(s, g) ==
    IF RSign(s.lots[s.gains[g].lot].units) < 0 THEN FALSE
    ELSE dtclose(g) - dtopen(s, g) > 365

\* day 1, and the days 365 and 366 days after it
GainDates == {1, 366, 367}

\* buys and sells of 1 and 2 units, and a return of capital
GainCatalog ==
    {Tx("INVBUYSELL", 1, X, ut[1], ut[2], 0, 0, 0, 0, NoMemo) :
        ut \in {<<1, -6>>, <<2, -6>>, <<-1, 2>>, <<-2, 8>>}}
    \cup Retofcaps

\* ofximport of records dated on GainDates
ImportG ==
    /\ pc = "idle"
    /\ Len(invtrans) < MaxTrans
    /\ \E tx \in GainCatalog, d \in GainDates :
        /\ \A j \in DOMAIN invtrans : invtrans[j].dttrade <= d
        /\ invtrans = <<>> => d = 1
        /\ invtrans' = Append(invtrans, [tx EXCEPT !.dttrade = d])
    /\ lastcalc' = NoCalc
    /\ UNCHANGED <<lots, gains, ofxlog, db, db0, pc, window, queue, washq>>

NextG ==
    \/ ImportG
    \/ Calc
    \/ Trade
    \/ ReturnOfCapital
    \/ WashSales
    \/ WashSale
    \/ Commit

SpecG == Init /\ [][NextG]_vars

(***************************************************************************)
(* Lot.split on a security held long in one account and short in the      *)
(* other.                                                                  *)
(***************************************************************************)
\* buys and a sell in account 1, a short sale and a buy in account 2, the
\* splits 1 -> 2 (consistent and not) and the reverse split 2 -> 1
SplitCatalog ==
    {Tx("INVBUYSELL", 1, X, ut[1], ut[2], 0, 0, 0, 0, NoMemo) :
        ut \in {<<2, -6>>, <<1, -6>>, <<-1, 2>>}}
    \cup {Tx("INVBUYSELL", 2, X, ut[1], ut[2], 0, 0, 0, 0, NoMemo) :
        ut \in {<<-1, 2>>, <<1, -6>>}}
    \cup Splits
    \cup {Tx("SPLIT", 1, X, 0, 0, 2, 1, 1, 2, NoMemo)}

ImportS == ofximport(SplitCatalog)

NextS ==
    \/ ImportS
    \/ Calc
    \/ Trade
    \/ Split
    \/ WashSales
    \/ WashSale
    \/ Commit

SpecS == Init /\ [][NextS]_vars

(***************************************************************************)
(* IBKR.doTransfer on a position of two lots: four records.                *)
(***************************************************************************)
\* most rows of INVTRAN in the transfer histories
MaxPair == 4

\* two buys and a sell of X, a buy and a short sale of Y, and the pair
\* "2 X out, 1 Y in";
\* "1 X out" pairs with "1 Y in" too
TransferCatalog ==
    {Tx("INVBUYSELL", 1, X, ut[1], ut[2], 0, 0, 0, 0, NoMemo) :
        ut \in {<<1, -6>>, <<1, -2>>, <<-1, 2>>}}
    \cup {Tx("INVBUYSELL", 1, Y, 1, -6, 0, 0, 0, 0, NoMemo),
          Tx("INVBUYSELL", 1, Y, -1, 2, 0, 0, 0, 0, NoMemo)}
    \cup {Tx("TRANSFER", 1, X, -2, 0, 0, 0, 0, 0, [text |-> "reorg", paren |-> "X"]),
          Tx("TRANSFER", 1, X, -1, 0, 0, 0, 0, 0, [text |-> "reorg", paren |-> "X"]),
          Tx("TRANSFER", 1, Y, 1, 0, 0, 0, 0, 0, [text |-> "reorg", paren |-> "Y"])}

\* ofximport of up to MaxPair records of TransferCatalog
ImportT ==
    /\ pc = "idle"
    /\ Len(invtrans) < MaxPair
    /\ \E tx \in TransferCatalog, d \in Dates :
        /\ \A j \in DOMAIN invtrans : invtrans[j].dttrade <= d
        /\ invtrans = <<>> => d = 1
        /\ invtrans' = Append(invtrans, [tx EXCEPT !.dttrade = d])
    /\ lastcalc' = NoCalc
    /\ UNCHANGED <<lots, gains, ofxlog, db, db0, pc, window, queue, washq>>

NextT ==
    \/ ImportT
    \/ Calc
    \/ Trade
    \/ Transfer
    \/ WashSales
    \/ WashSale
    \/ Commit

SpecT == Init /\ [][NextT]_vars

(***************************************************************************)
(* IBKR.doIncome on memos with and without the phrase, and on expenses     *)
(* that do and do not reverse an income.                                   *)
(***************************************************************************)
\* buys and a sell of X; incomes of 2 with the memo "div (Return of
\* Capital)", the same in capitals, the phrase outside parentheses, and no
\* phrase; expenses of -2 and of -8 whose memos begin with "div" or do not
IncomeCatalog ==
    {Tx("INVBUYSELL", 1, X, ut[1], ut[2], 0, 0, 0, 0, NoMemo) :
        ut \in {<<1, -6>>, <<2, -6>>, <<-1, 2>>}}
    \cup {Tx("INCOME", 1, X, 0, 2, 0, 0, 0, 0, memo) :
        memo \in {[text |-> "div", paren |-> "Return of Capital"],
                  [text |-> "div", paren |-> "RETURN OF CAPITAL"],
                  [text |-> "div return of capital", paren |-> ""],
                  [text |-> "div", paren |-> ""]}}
    \cup {Tx("INVEXPENSE", 1, X, 0, -2, 0, 0, 0, 0, [text |-> txt, paren |-> ""]) :
        txt \in {"div", "dividend", "fee"}}
    \cup {Tx("INVEXPENSE", 1, X, 0, -8, 0, 0, 0, 0, [text |-> "div", paren |-> ""])}

ImportI == ofximport(IncomeCatalog)

NextI ==
    \/ ImportI
    \/ Calc
    \/ Trade
    \/ Income
    \/ Unhandled
    \/ WashSales
    \/ WashSale
    \/ Commit

SpecI == Init /\ [][NextI]_vars

(***************************************************************************)
(* Properties of the ledger.                                               *)
(***************************************************************************)
RECURSIVE SetSum(_, _)
SetSum(f, S) ==
    IF S = {} THEN Zero
    ELSE LET x == CHOOSE y \in S : TRUE IN RAdd(f[x], SetSum(f, S \ {x}))

\* the step is a handler's, and the handler did not raise
Handled == pc = "ingest" /\ queue # <<>> /\ pc' = "ingest"

\* lot m supersedes lot l
Supersedes(m, l) == lots[m].predecessor = l

(***************************************************************************)
(* C1  At-most-once.                                                       *)
(***************************************************************************)
\* the driver is about to hand an already logged transaction to its handler
AlreadyLogged ==
    /\ pc = "ingest"
    /\ queue # <<>>
    /\ Head(queue) \in Range(ofxlog)
    /\ doInvtran(Head(queue)) # "return"

\* C1: a handler (Lot.trade, Lot.returnOfCapital, Lot.split, IBKR.doTransfer,
\* IBKR.doIncome) called on a transaction that is already in the event log
\* leaves every lot, every gain and the log unchanged, and the log never
\* holds two records for one transaction.
C1_AtMostOnce ==
    [][/\ AlreadyLogged => lots' = lots /\ gains' = gains /\ ofxlog' = ofxlog
       /\ \A a, b \in DOMAIN ofxlog' : ofxlog'[a] = ofxlog'[b] => a = b]_vars

\* a run has handed a trade logged by an earlier run to Lot.trade again, and
\* the ledger is what it was
C1_Witness ==
    /\ pc = "ingest"
    /\ lots # <<>>
    /\ Sess = db0
    /\ \E i \in Range(db0.ofxlog) : i \notin Range(queue) /\ doInvtran(i) = "trade"

(***************************************************************************)
(* C2  Re-running calc.                                                    *)
(***************************************************************************)
\* C2: a run of calc over a window on which calc has already completed (and
\* nothing was imported since) ends with the lots, the gains and the event
\* log it began with.
C2_RerunNoOp ==
    (pc = "wash" /\ washq = <<>> /\ lastcalc = window) => Sess = db0

(***************************************************************************)
(* C3  Conservation of units.                                              *)
(***************************************************************************)
TradesOnly == \A k \in DOMAIN ofxlog : invtrans[ofxlog[k]].kind = "INVBUYSELL"

LoggedTrades(a, sec) ==
    {i \in Range(ofxlog) : /\ invtrans[i].kind = "INVBUYSELL"
                           /\ invtrans[i].acctfrom = a
                           /\ invtrans[i].secinfo = sec}

\* net signed units of the ingested trades
NetUnits(a, sec) ==
    SetSum([i \in DOMAIN invtrans |-> Decimal(invtrans[i].units)], LoggedTrades(a, sec))

\* units over the current open lots
OpenUnits(a, sec) ==
    SetSum([l \in DOMAIN lots |-> lots[l].units],
           {l \in DOMAIN lots : /\ lots[l].account = a
                                /\ lots[l].security = sec
                                /\ lots[l].dtend = None})

\* C3: for every (account, security) the units of the current open lots sum
\* to the net signed units of the ingested trades; stated for the ledgers that
\* have ingested trades only, where no split or transfer adjusts the net.
C3_UnitsConserved ==
    TradesOnly => \A a \in Accounts, sec \in Securities : OpenUnits(a, sec) = NetUnits(a, sec)

(***************************************************************************)
(* C4  Conservation of cost.                                               *)
(***************************************************************************)
LotsOf(a, sec) == {l \in DOMAIN lots : lots[l].account = a /\ lots[l].security = sec}

\* cash paid less cash received over the ingested trades
NetCashPaid(a, sec) ==
    SetSum([i \in DOMAIN invtrans |-> Decimal(0 - invtrans[i].total)], LoggedTrades(a, sec))

\* C4: for every (account, security) the cost held in lots is the net cash
\* paid by the ingested trades plus the proceeds realized, also after a trade
\* that closes opposite-signed lots and opens a lot with the units left over;
\* stated for the ledgers that have ingested trades only (no return of
\* capital applied).  Cost and proceeds carry the signs the ledger stores.
C4_CostConserved ==
    TradesOnly =>
        \A a \in Accounts, sec \in Securities :
            RSub(SetSum([l \in DOMAIN lots |-> lots[l].cost], LotsOf(a, sec)),
                 SetSum([g \in DOMAIN gains |-> gains[g].proceeds],
                        {g \in DOMAIN gains : gains[g].lot \in LotsOf(a, sec)}))
              = NetCashPaid(a, sec)

(***************************************************************************)
(* C5  Sign consistency.                                                   *)
(***************************************************************************)
SignConsistent(lot) == lot.units # Zero /\ ~RLt(RMul(lot.units, lot.cost), Zero)

\* C5: every lot of the session and of the database has units # 0 and
\* units * cost >= 0.
C5_SignConsistency ==
    /\ \A l \in DOMAIN lots : SignConsistent(lots[l])
    /\ \A l \in DOMAIN db.lots : SignConsistent(db.lots[l])

\* a return of capital larger than the basis has left a successor at cost 0,
\* next to a short lot
C5_Witness ==
    /\ \E l \in DOMAIN lots : lots[l].predecessor # None /\ lots[l].cost = Zero
    /\ \E l \in DOMAIN lots : RSign(lots[l].units) < 0 /\ RSign(lots[l].cost) < 0

(***************************************************************************)
(* C6  Holding-period preservation.                                        *)
(***************************************************************************)
\* C6: every successor lot has the dtopen and the opener of the lot it
\* supersedes.
C6_HoldingPeriod ==
    \A m \in DOMAIN lots :
        lots[m].predecessor # None =>
            /\ lots[m].dtopen = lots[lots[m].predecessor].dtopen
            /\ lots[m].opener = lots[lots[m].predecessor].opener

\* a chain of three lots whose last link started after the position was opened
C6_Witness ==
    \E m \in DOMAIN lots :
        /\ lots[m].predecessor # None
        /\ lots[lots[m].predecessor].predecessor # None
        /\ lots[m].dtstart > lots[m].dtopen

(***************************************************************************)
(* C7  Lot currency.                                                       *)
(***************************************************************************)
\* the last link of a predecessor chain: no lot supersedes it
Last(l) == \A m \in DOMAIN lots : ~Supersedes(m, l)

\* C7 as the specification states it: exactly one lot of a predecessor chain,
\* its last, has dtend = null, and every earlier link has dtend set.
C7_ExactlyOneCurrent ==
    \A l \in DOMAIN lots :
        IF Last(l) THEN lots[l].dtend = None ELSE lots[l].dtend # None

\* C7: at most one lot of a predecessor chain has dtend = null: every lot has
\* at most one successor, and every lot that has one has dtend set.
C7_AtMostOneCurrent ==
    \A l \in DOMAIN lots :
        /\ \A m, n \in DOMAIN lots : Supersedes(m, l) /\ Supersedes(n, l) => m = n
        /\ ~Last(l) => lots[l].dtend # None

\* a trade has closed the last link of a chain: no lot of the chain is current
C7_Witness ==
    \E m \in DOMAIN lots :
        /\ lots[m].predecessor # None
        /\ Last(m)
        /\ lots[m].dtclose # None
        /\ lots[m].dtend # None

(***************************************************************************)
(* C8  Wash-sale totalization.                                             *)
(***************************************************************************)
\* the step is a call of Gain.doWashSale that disallows the loss of its gain
Disallows ==
    /\ pc = "wash"
    /\ washq # <<>>
    /\ pc' = "wash"
    /\ gains[Head(washq)].washloss = Zero
    /\ gains'[Head(washq)].washloss # Zero

\* the lots the call rolled washcost into (a lot is inserted with washcost 0)
Rolled ==
    {l \in DOMAIN lots' :
        lots'[l].washcost # (IF l \in DOMAIN lots THEN lots[l].washcost ELSE Zero)}

\* C8: when Gain.doWashSale disallows a loss, the units it rolled washcost
\* into are the washed units of the loss lot (the counter ends at zero) and
\* the gain's washloss plus the washcost it assigned is zero.
C8_Totalization ==
    [][Disallows =>
        /\ SetSum([l \in DOMAIN lots' |-> lots'[l].units], Rolled)
             = lots'[gains[Head(washq)].lot].units
        /\ RAdd(gains'[Head(washq)].washloss,
                SetSum([l \in DOMAIN lots' |-> lots'[l].washcost], Rolled)) = Zero]_vars

\* a loss was disallowed against part of a replacement lot: the lot was split
\* and its washed part carries the washcost
C8_Witness ==
    \E g \in DOMAIN gains, l, u \in DOMAIN lots :
        /\ gains[g].washloss # Zero
        /\ lots[l].washcost = RNeg(gains[g].washloss)
        /\ lots[u].opener = lots[l].opener
        /\ u # l
        /\ lots[u].washcost = Zero
        /\ lots[l].opener # lots[gains[g].lot].opener

(***************************************************************************)
(* C9  FIFO matching.                                                      *)
(***************************************************************************)
\* the lots a trade may match: current at its date, of its account and
\* security, of the opposite sign
Candidates(i) ==
    {l \in DOMAIN lots :
        /\ lots[l].account = invtrans[i].acctfrom
        /\ lots[l].security = invtrans[i].secinfo
        /\ lots[l].dtstart <= invtrans[i].dttrade
        /\ (lots[l].dtend = None \/ lots[l].dtend > invtrans[i].dttrade)
        /\ RSign(lots[l].units) * invtrans[i].units < 0}

Earlier(k, l) ==
    \/ lots[k].dtopen < lots[l].dtopen
    \/ lots[k].dtopen = lots[l].dtopen /\ k < l

\* C9: Lot.trade changes and closes candidate lots only, and when it closes
\* all or part of a lot it has closed every earlier candidate in full.
C9_Fifo ==
    [][(Handled /\ doInvtran(Head(queue)) = "trade") =>
        LET i == Head(queue)
            Closed == {l \in DOMAIN lots : lots[l].closer # i /\ lots'[l].closer = i}
        IN  /\ \A l \in DOMAIN lots : lots'[l] # lots[l] => l \in Candidates(i)
            /\ \A l \in Closed : \A k \in Candidates(i) :
                  Earlier(k, l) => k \in Closed /\ lots'[k].units = lots[k].units]_vars

\* a trade closed part of the first lot of a position and left a later lot of
\* the position alone
C9_Witness ==
    \E l, k, r \in DOMAIN lots :
        /\ lots[l].closer # None
        /\ lots[r].opener = lots[l].opener /\ r # l /\ lots[r].dtclose = None
        /\ lots[k].account = lots[l].account /\ lots[k].security = lots[l].security
        /\ lots[k].opener # lots[l].opener
        /\ RSign(lots[k].units) = RSign(lots[l].units)
        /\ lots[k].dtstart <= lots[l].dtclose
        /\ lots[k].dtclose = None
        /\ Earlier(l, k)

(***************************************************************************)
(* C10  Transactional abort.                                               *)
(***************************************************************************)
\* the step ends the run by an exception
Aborts == pc # "idle" /\ pc' = "idle" /\ ~(pc = "wash" /\ washq = <<>>)

\* C10: when a run is aborted, the database holds the ledger it held when
\* the run began.
C10_AbortRestores == [][Aborts => db' = db0]_vars

(***************************************************************************)
(* C11  Partial close.                                                     *)
(***************************************************************************)
\* the units trade i still has to close when its walk reaches candidate l
Remaining(i, l) ==
    RAdd(Decimal(invtrans[i].units),
         SetSum([k \in DOMAIN lots |-> lots[k].units],
                {k \in Candidates(i) : Earlier(k, l)}))

\* the walk of trade i reaches candidate l with fewer units left than l holds
PartialClose(i, l) ==
    /\ l \in Candidates(i)
    /\ RSign(Remaining(i, l)) * invtrans[i].units > 0
    /\ RLt(RAbs(Remaining(i, l)), RAbs(lots[l].units))

\* C11: when the units a trade has still to close are smaller in magnitude
\* than the candidate lot's, Lot.trade closes -remaining units of the lot and
\* inserts an open residual of lot.units + remaining units; the residual
\* costs its units times the lot's unit cost and the closed portion the rest,
\* so units and cost sum to the lot's; the residual keeps dtopen, opener,
\* dtstart and starter, with dtclose and dtend null; no later candidate is
\* touched and no lot is opened.
C11_PartialClose ==
    [][\A l \in DOMAIN lots :
        (/\ Handled
         /\ doInvtran(Head(queue)) = "trade"
         /\ Head(queue) \notin Range(ofxlog)
         /\ PartialClose(Head(queue), l)) =>
        LET i == Head(queue)
            lot == lots[l]
            residual == lots'[Len(lots) + 1]
        IN  /\ Len(lots') = Len(lots) + 1
            /\ lots'[l].units = RNeg(Remaining(i, l))
            /\ lots'[l].closer = i
            /\ lots'[l].dtclose = invtrans[i].dttrade
            /\ residual.units = RAdd(lot.units, Remaining(i, l))
            /\ residual.cost = RMul(residual.units, RDiv(lot.cost, lot.units))
            /\ lots'[l].cost = RSub(lot.cost, residual.cost)
            /\ RAdd(lots'[l].units, residual.units) = lot.units
            /\ RAdd(lots'[l].cost, residual.cost) = lot.cost
            /\ residual.account = lot.account
            /\ residual.security = lot.security
            /\ residual.dtopen = lot.dtopen
            /\ residual.opener = lot.opener
            /\ residual.dtstart = lot.dtstart
            /\ residual.starter = lot.starter
            /\ residual.dtclose = None
            /\ residual.closer = None
            /\ residual.dtend = None
            /\ residual.ender = None
            /\ \A k \in Candidates(i) : Earlier(l, k) => lots'[k] = lots[k]]_vars

\* a trade of a later day has closed part of a lot and left the rest open
C11_Witness ==
    /\ pc = "ingest"
    /\ \E l, r \in DOMAIN lots :
        /\ l < r
        /\ lots[l].closer # None
        /\ lots[l].dtclose > lots[l].dtopen
        /\ lots[r].closer = None
        /\ lots[r].dtend = None
        /\ lots[r].predecessor = None
        /\ lots[r].opener = lots[l].opener
        /\ lots[r].opener # lots[l].closer
        /\ lots[r].cost # Zero
        /\ RAdd(lots[l].units, lots[r].units) = Decimal(invtrans[lots[l].opener].units)

(***************************************************************************)
(* C12  Time-sliced query.                                                 *)
(***************************************************************************)
\* the lots in force at D, of the account and of the security if given
InForce(D, account, security) ==
    {l \in DOMAIN lots :
        /\ lots[l].dtstart <= D
        /\ (lots[l].dtend = None \/ lots[l].dtend > D)
        /\ (account # None => lots[l].account = account)
        /\ (security # None => lots[l].security = security)}

\* seq lists lots in ascending (dtopen, id) order, none twice
Ascending(seq) == \A p, q \in DOMAIN seq : p < q => Earlier(seq[p], seq[q])

\* C12: Lot.asOf(D, account, security) returns exactly the lots with
\* dtstart <= D and (dtend null or dtend > D), of the account and of the
\* security when these are given, in (dtopen, id) order; Lot.longsAsOf
\* returns those of them with units > 0; a lot ended at D is not returned for
\* D and a lot started at D (and not ended by then) is.
C12_AsOf ==
    \A D \in Dates, account \in Accounts \cup {None}, security \in Securities \cup {None} :
        LET found == asOf(lots, D, account, security)
            longs == longsAsOf(lots, D, account, security)
        IN  /\ Range(found) = InForce(D, account, security)
            /\ Ascending(found)
            /\ Range(longs) = {l \in InForce(D, account, security) : RSign(lots[l].units) > 0}
            /\ Ascending(longs)
            /\ \A l \in DOMAIN lots :
                /\ lots[l].dtend = D => l \notin Range(found)
                /\ (/\ lots[l].dtstart = D
                    /\ lots[l].dtend # D
                    /\ account \in {None, lots[l].account}
                    /\ security \in {None, lots[l].security}) => l \in Range(found)

\* a lot was ended on day 31 and its successor started that day: the query
\* as of day 31 returns the successor alone, the query as of day 1 the lot
C12_Witness ==
    \E l, m \in DOMAIN lots :
        /\ Supersedes(m, l)
        /\ lots[l].dtend = 31
        /\ lots[m].dtstart = 31
        /\ lots[l].dtstart = 1
        /\ lots[m].dtend = None
        /\ asOf(lots, 31, lots[l].account, lots[l].security) = <<m>>
        /\ asOf(lots, 1, lots[l].account, lots[l].security) = <<l>>
        /\ longsAsOf(lots, 31, None, None) = <<m>>

(***************************************************************************)
(* C13, C14  Return of capital.                                            *)
(***************************************************************************)
\* a return of capital that is not in the log reaches Lot.returnOfCapital,
\* from the driver or from IBKR.doIncome, and the call returns
RetofcapApplied ==
    /\ Handled
    /\ Head(queue) \notin Range(ofxlog)
    /\ \/ doInvtran(Head(queue)) = "returnOfCapital"
       \/ /\ doInvtran(Head(queue)) = "doIncome"
          /\ invtrans[Head(queue)].memo.paren = "Return of Capital"
          /\ \A j \in DOMAIN invtrans :
                ~(/\ invtrans[j].kind = "INVEXPENSE"
                  /\ invtrans[j].dttrade = invtrans[Head(queue)].dttrade
                  /\ invtrans[j].total = 0 - invtrans[Head(queue)].total
                  /\ invtrans[j].memo.text = invtrans[Head(queue)].memo.text)

\* the long lots of the event's security in force at its date
LongsAt(i) ==
    {l \in InForce(invtrans[i].dttrade, None, invtrans[i].secinfo) : RSign(lots[l].units) > 0}

\* lot.cost - lot.units * T / (the units of the long lots)
AdjCost(i, l) ==
    RSub(lots[l].cost,
         RDiv(RMul(lots[l].units, Decimal(invtrans[i].total)),
              SetSum([k \in DOMAIN lots |-> lots[k].units], LongsAt(i))))

\* the lots the step inserted
NewLots == DOMAIN lots' \ DOMAIN lots

\* the gains the step inserted
NewGains == DOMAIN gains' \ DOMAIN gains

C14_ExcessIsGain ==
    [][RetofcapApplied =>
        LET i == Head(queue)
        IN  /\ \A g \in DOMAIN gains : gains'[g] = gains[g]
            /\ \A g \in NewGains : gains'[g].lot \in NewLots
            /\ \A m \in NewLots :
                LET l == lots'[m].predecessor
                    made == {g \in NewGains : gains'[g].lot = m}
                IN  IF RLt(AdjCost(i, l), Zero)
                    THEN /\ lots'[m].cost = Zero
                         /\ Cardinality(made) = 1
                         /\ \A g \in made :
                              /\ gains'[g].proceeds = RNeg(AdjCost(i, l))
                              /\ gains'[g].transaction = i
                              /\ gains'[g].washloss = Zero
                    ELSE made = {}]_vars

\* one return of capital exceeded the basis of one lot and not of another:
\* the first successor costs nothing and carries the excess as a gain, the
\* second keeps basis and has no gain
C14_Witness ==
    \E m, n \in DOMAIN lots, g \in DOMAIN gains :
        /\ lots[m].predecessor # None
        /\ lots[n].predecessor # None
        /\ lots[m].starter = lots[n].starter
        /\ invtrans[lots[m].starter].kind = "RETOFCAP"
        /\ lots[m].cost = Zero
        /\ gains[g].lot = m
        /\ gains[g].transaction = lots[m].starter
        /\ gains[g].proceeds = Decimal(2)
        /\ lots[n].cost = Decimal(2)
        /\ \A h \in DOMAIN gains : gains[h].lot # n

(***************************************************************************)
(* C15  Wash sale: the replacement lots cover the loss or fall short.      *)
(***************************************************************************)
\* the lot of gain g
LossLot(g) == gains[g].lot

\* the replacement lots of gain g as the call finds them
Replacements(g) ==
    {l \in DOMAIN lots :
        /\ l # LossLot(g)
        /\ lots[l].account = lots[LossLot(g)].account
        /\ lots[l].security = lots[LossLot(g)].security
        /\ RSign(lots[l].units) = RSign(lots[LossLot(g)].units)
        /\ lots[l].washcost = Zero
        /\ lots[l].dtopen >= lots[LossLot(g)].dtclose - WashDays
        /\ lots[l].dtopen <= lots[LossLot(g)].dtclose + WashDays}

ReplacementUnits(g) == SetSum([l \in DOMAIN lots |-> lots[l].units], Replacements(g))

\* the lesser in magnitude of the replacement units and the loss lot's units
WashedUnits(g) == copysignmin(ReplacementUnits(g), lots[LossLot(g)].units)

\* the gain's value per unit of its lot
UnitLoss(g) ==
    RDiv(RSub(gains[g].proceeds, lots[LossLot(g)].cost), lots[LossLot(g)].units)

\* the units of the replacement lots the walk passes before it reaches l
Ahead(g, l) ==
    SetSum([k \in DOMAIN lots |-> lots[k].units], {k \in Replacements(g) : Earlier(k, l)})

\* the wash units still remaining when the walk reaches l cover l in full
Covered(g, l) ==
    RLe(RAbs(RAdd(Ahead(g, l), lots[l].units)), RAbs(WashedUnits(g)))

\* C15: when Gain.doWashSale disallows a loss, every replacement lot that the
\* wash units still remaining cover in full, walking the replacement lots in
\* (dtopen, id) order, gets washcost = its units * -unitLoss with units and
\* cost unchanged; the gain's washloss is washedUnits * unitLoss; and when
\* the replacement units equal the loss lot's units no lot or gain is added.
C15_WholeReplacements ==
    [][Disallows =>
        LET g == Head(washq)
        IN  /\ \A l \in Replacements(g) :
                Covered(g, l) =>
                    /\ lots'[l].washcost = RMul(lots[l].units, RNeg(UnitLoss(g)))
                    /\ lots'[l].units = lots[l].units
                    /\ lots'[l].cost = lots[l].cost
            /\ gains'[g].washloss = RMul(WashedUnits(g), UnitLoss(g))
            /\ ReplacementUnits(g) = lots[LossLot(g)].units =>
                    Len(lots') = Len(lots) /\ Len(gains') = Len(gains)]_vars

(***************************************************************************)
(* C16  Wash sale: a replacement lot exceeds the wash units remaining.     *)
(***************************************************************************)
\* Gain.doWashSale is called on gain g, which passes its guards
Qualifies(g) ==
    /\ gains[g].washloss = Zero
    /\ lots[LossLot(g)].dtclose # None
    /\ RLt(RSub(gains[g].proceeds, lots[LossLot(g)].cost), Zero)
    /\ lots[LossLot(g)].closer = gains[g].transaction
    /\ Replacements(g) # {}

\* the wash units still remaining when the walk reaches replacement lot l
RemainingWash(g, l) == RSub(WashedUnits(g), Ahead(g, l))

\* the walk reaches l with wash units remaining, fewer than l holds
Surplus(g, l) ==
    /\ l \in Replacements(g)
    /\ RSign(RemainingWash(g, l)) = RSign(lots[l].units)
    /\ RLt(RAbs(RemainingWash(g, l)), RAbs(lots[l].units))

\* C16: when Gain.doWashSale reaches a replacement lot that has more units
\* than the wash units remaining, the lot keeps the remaining units at its
\* unit cost with washcost = remaining * -unitLoss, and one new lot holds the
\* other units at the same unit cost, with washcost 0 and the same account,
\* security, dtopen, opener, dtclose, closer, dtstart, starter, dtend and
\* ender; every gain on the lot stays on it with its proceeds cut to the
\* washed share, and has one new twin on the new lot, of the same
\* transaction, with the unwashed share of the proceeds and washloss 0.
C16_ReplacementSurplus ==
    [][\A l \in DOMAIN lots :
        (pc = "wash" /\ washq # <<>> /\ Qualifies(Head(washq)) /\ Surplus(Head(washq), l)) =>
        LET g == Head(washq)
            rem == RemainingWash(g, l)
            lot == lots[l]
            m == Len(lots) + 1
            share == RDiv(rem, lot.units)
            on == {h \in DOMAIN gains : gains[h].lot = l}
        IN  /\ Len(lots') = Len(lots) + 1
            /\ lots'[l] = [lot EXCEPT !.units = rem,
                                      !.cost = RMul(rem, RDiv(lot.cost, lot.units)),
                                      !.washcost = RMul(rem, RNeg(UnitLoss(g)))]
            /\ lots'[m] = [lot EXCEPT !.units = RSub(lot.units, rem),
                                      !.cost = RSub(lot.cost, lots'[l].cost),
                                      !.washcost = Zero,
                                      !.predecessor = None]
            /\ Len(gains') = Len(gains) + Cardinality(on)
            /\ \A h \in on :
                /\ gains'[h] = [gains[h] EXCEPT !.proceeds = RMul(share, gains[h].proceeds)]
                /\ \E k \in NewGains :
                    /\ gains'[k].lot = m
                    /\ gains'[k].transaction = gains[h].transaction
                    /\ gains'[k].proceeds = RSub(gains[h].proceeds, gains'[h].proceeds)
                    /\ gains'[k].washloss = Zero
                    /\ \A j \in NewGains :
                          gains'[j].transaction = gains[h].transaction => j = k]_vars

(***************************************************************************)
(* C17  Wash-sale selection.                                               *)
(***************************************************************************)
\* the first and the last date of the run's window
From == IF window[1] = None THEN datetime_min ELSE window[1]
Until == IF window[2] = None THEN datetime_max ELSE window[2]

\* the lot of gain g was closed within the run's window
ClosedInWindow(g) ==
    /\ lots[LossLot(g)].dtclose # None
    /\ lots[LossLot(g)].dtclose >= From
    /\ lots[LossLot(g)].dtclose <= Until

\* Gain.doWashSales runs its query
Selects == pc = "ingest" /\ queue = <<>> /\ pc' = "wash"

\* C17: Gain.doWashSales(dtstart, dtend) considers gains on lots closed
\* within [dtstart, dtend] only, in ascending order of the lot's dtopen;
\* every gain on a lot closed within the window that has washloss = 0,
\* value < 0, transaction = the lot's closer and replacement lots is among
\* them, whatever the lot's dtopen; and a loss is disallowed only for a gain
\* with washloss = 0, value < 0 and transaction = the lot's closer.
C17_Selection ==
    [][/\ Selects =>
            /\ \A g \in Range(washq') : ClosedInWindow(g)
            /\ \A p, q \in DOMAIN washq' :
                  p < q => lots[LossLot(washq'[p])].dtopen <= lots[LossLot(washq'[q])].dtopen
            /\ \A g \in DOMAIN gains :
                  (ClosedInWindow(g) /\ Qualifies(g)) => g \in Range(washq')
       /\ Disallows =>
            /\ gains[Head(washq)].washloss = Zero
            /\ RLt(RSub(gains[Head(washq)].proceeds, lots[LossLot(Head(washq))].cost), Zero)
            /\ lots[LossLot(Head(washq))].closer = gains[Head(washq)].transaction]_vars

(***************************************************************************)
(* C18  Replacement rule.                                                  *)
(***************************************************************************)
\* a call of Gain.doWashSale that returns
Evaluates == pc = "wash" /\ washq # <<>> /\ pc' = "wash"

C19_Frame ==
    [][(pc = "wash" /\ washq # <<>> /\ ~Qualifies(Head(washq))) =>
        /\ pc' = "wash"
        /\ lots' = lots
        /\ gains' = gains
        /\ washq' = Tail(washq)]_vars

\* a pass over all dates has evaluated a gain that is no loss and a loss
\* that has no replacement lot, though a lot of its security was opened
\* more than 30 days after the close; nothing was disallowed
C19_Witness ==
    /\ pc = "wash"
    /\ washq = <<>>
    /\ window = <<None, None>>
    /\ \A g \in DOMAIN gains : gains[g].washloss = Zero
    /\ \A l \in DOMAIN lots : lots[l].washcost = Zero
    /\ \E g, h \in DOMAIN gains :
        /\ lots[LossLot(g)].closer = gains[g].transaction
        /\ RLt(RSub(gains[g].proceeds, lots[LossLot(g)].cost), Zero)
        /\ Replacements(g) = {}
        /\ \E l \in DOMAIN lots :
            /\ lots[l].security = lots[LossLot(g)].security
            /\ lots[l].account = lots[LossLot(g)].account
            /\ lots[l].dtopen > lots[LossLot(g)].dtclose + WashDays
        /\ ~RLt(RSub(gains[h].proceeds, lots[LossLot(h)].cost), Zero)

(***************************************************************************)
(* C20  Driver ordering.                                                   *)
(***************************************************************************)
\* calc opens its session and Lot.doInvtrans runs its query
Starts == pc = "idle" /\ pc' = "ingest"

\* C20: Lot.doInvtrans selects exactly the transactions with dtstart <=
\* dttrade <= dtend, each once, in ascending (dttrade, id) order; it hands
\* them to their handlers one by one in that order, each handler being given
\* the next transaction and no other, until none is left or a handler
\* raises; and the wash-sale pass starts only when none is left.
C20_DriverOrdering ==
    [][/\ Starts =>
            /\ Range(queue') = {i \in DOMAIN invtrans :
                                  /\ window'[1] # None => invtrans[i].dttrade >= window'[1]
                                  /\ window'[2] # None => invtrans[i].dttrade <= window'[2]}
            /\ \A p, q \in DOMAIN queue' :
                  p < q =>
                    \/ invtrans[queue'[p]].dttrade < invtrans[queue'[q]].dttrade
                    \/ /\ invtrans[queue'[p]].dttrade = invtrans[queue'[q]].dttrade
                       /\ queue'[p] < queue'[q]
       /\ (pc = "ingest" /\ queue # <<>>) =>
            \/ pc' = "idle"
            \/ /\ pc' = "ingest"
               /\ queue' = Tail(queue)
               /\ doInvtran(Head(queue)) # "return" => Head(queue) \in Range(ofxlog')
               /\ \A i \in Range(queue') : i \in Range(ofxlog') => i \in Range(ofxlog)
       /\ pc' = "wash" => queue' = <<>>
       /\ (pc = "ingest" /\ queue = <<>>) => pc' = "wash"]_vars

\* a run from day 31 on has dispatched the transactions of days 31 and 32
\* in that order and left the transaction of day 1 alone; its wash-sale
\* pass has begun
C20_Witness ==
    /\ pc = "wash"
    /\ window = <<31, None>>
    /\ Len(invtrans) = 3
    /\ invtrans[1].dttrade = 1
    /\ invtrans[2].dttrade = 31
    /\ invtrans[3].dttrade = 32
    /\ ofxlog = <<2, 3>>
    /\ queue = <<>>

(***************************************************************************)
(* C21  Dispatch.                                                          *)
(***************************************************************************)
\* the override brokerquirks registers for the broker and type of
\* transaction i, "" if none
Override(i) ==
    IF brokerid(invtrans[i].acctfrom) # "4705" THEN ""
    ELSE IF invtrans[i].kind = "TRANSFER" THEN "doTransfer"
    ELSE IF invtrans[i].kind = "INCOME" THEN "doIncome"
    ELSE ""

\* what the claim has Lot.doInvtran run on transaction i in session s
Routed(s, i) ==
    IF Override(i) = "doTransfer" THEN doTransfer(s, i)
    ELSE IF Override(i) = "doIncome" THEN doIncome(s, i)
    ELSE IF invtrans[i].kind = "INVBUYSELL" THEN trade(s, i)
    ELSE IF invtrans[i].kind = "RETOFCAP" THEN returnOfCapital(s, i, TRUE)
    ELSE IF invtrans[i].kind = "SPLIT" THEN split(s, i)
    ELSE Ok(s)

\* C21: Lot.doInvtran runs the override registered for the account's broker
\* and the transaction's type when there is one, and nothing else; with no
\* override it runs Lot.trade on a buy or sell, Lot.returnOfCapital on a
\* return of capital and Lot.split on a split; on any other kind it changes
\* no lot, no gain and no event-log record.  The run ends at that
\* transaction only if what was run raised or wrote a row the table refuses.
C21_Dispatch ==
    [][(pc = "ingest" /\ queue # <<>>) =>
        LET i == Head(queue)
            r == Routed(Sess, i)
        IN  /\ pc' = "ingest" => lots' = r.s.lots /\ gains' = r.s.gains /\ ofxlog' = r.s.ofxlog
            /\ pc' # "ingest" =>
                  r.err \/ \E l \in DOMAIN r.s.lots : ~CheckConstraint(r.s.lots[l])
            /\ (/\ Override(i) = ""
                /\ invtrans[i].kind \notin {"INVBUYSELL", "RETOFCAP", "SPLIT"}) =>
                  lots' = lots /\ gains' = gains /\ ofxlog' = ofxlog /\ pc' = "ingest"]_vars

\* a run has dispatched every record: the income record of the account
\* without overrides is not logged, the other account's went to
\* IBKR.doIncome and is logged, and a buy went to Lot.trade
C21_Witness ==
    /\ pc = "ingest"
    /\ queue = <<>>
    /\ \E i, j, k \in DOMAIN invtrans :
        /\ invtrans[i].kind = "INCOME"
        /\ invtrans[i].acctfrom = 2
        /\ i \notin Range(ofxlog)
        /\ invtrans[j].kind = "INCOME"
        /\ invtrans[j].acctfrom = 1
        /\ j \in Range(ofxlog)
        /\ invtrans[k].kind = "INVBUYSELL"
        /\ k \in Range(ofxlog)

(***************************************************************************)
(* C22  Return of capital with no units.                                   *)
(***************************************************************************)
\* the driver is about to dispatch a return of capital that is not in the
\* log and that reaches Lot.returnOfCapital
RetofcapCalled ==
    /\ pc = "ingest"
    /\ queue # <<>>
    /\ Head(queue) \notin Range(ofxlog)
    /\ \/ doInvtran(Head(queue)) = "returnOfCapital"
       \/ /\ doInvtran(Head(queue)) = "doIncome"
          /\ invtrans[Head(queue)].memo.paren = "Return of Capital"
          /\ \A j \in DOMAIN invtrans :
                ~(/\ invtrans[j].kind = "INVEXPENSE"
                  /\ invtrans[j].dttrade = invtrans[Head(queue)].dttrade
                  /\ invtrans[j].total = 0 - invtrans[Head(queue)].total
                  /\ invtrans[j].memo.text = invtrans[Head(queue)].memo.text)

\* C22: when no long lot of the security is in force at the event date (the
\* units of the long lots sum to zero), Lot.returnOfCapital raises: the run
\* ends there, and the event has ended no lot, started no lot and made no
\* gain; the session holds what was last committed.
C22_NoUnits ==
    [][(RetofcapCalled /\ LongsAt(Head(queue)) = {}) =>
        /\ pc' = "idle"
        /\ \A l \in DOMAIN lots' :
              lots'[l].ender # Head(queue) /\ lots'[l].starter # Head(queue)
        /\ \A g \in DOMAIN gains' : gains'[g].transaction # Head(queue)
        /\ Head(queue) \notin Range(ofxlog')
        /\ lots' = db.lots
        /\ gains' = db.gains]_vars

\* Lot.returnOfCapital is about to be called for a security of which the
\* ledger holds no long lot in force, only a short lot
C22_Witness ==
    /\ RetofcapCalled
    /\ LongsAt(Head(queue)) = {}
    /\ \E l \in DOMAIN lots :
        /\ lots[l].security = invtrans[Head(queue)].secinfo
        /\ RSign(lots[l].units) < 0
        /\ lots[l].dtend = None

(***************************************************************************)
(* C23  Split consistency errors.                                          *)
(***************************************************************************)
\* the driver is about to dispatch a split that is not in the log
SplitCalled ==
    /\ pc = "ingest"
    /\ queue # <<>>
    /\ doInvtran(Head(queue)) = "split"
    /\ Head(queue) \notin Range(ofxlog)

\* the units of the lots of the split's security in force at the split date
HeldUnits(i) ==
    SetSum([k \in DOMAIN lots |-> lots[k].units],
           InForce(invtrans[i].dttrade, None, invtrans[i].secinfo))

\* newunits/oldunits is not numerator/denominator
RatioMismatch(i) ==
    invtrans[i].newunits * invtrans[i].denominator
        # invtrans[i].numerator * invtrans[i].oldunits

\* the successors' units, HeldUnits x newunits/oldunits, are 1e-8 or more
\* away from newunits
UnitsMismatch(i) ==
    ~RLt(RAbs(RSub(RMul(HeldUnits(i),
                        RDiv(Decimal(invtrans[i].newunits), Decimal(invtrans[i].oldunits))),
                   Decimal(invtrans[i].newunits))),
         Norm(1, 100000000))

\* C23: Lot.split raises, and the run ends, exactly when newunits/oldunits
\* differs from numerator/denominator or the successors' units differ from
\* newunits by 1e-8 or more; the latter is when the units held in the
\* security at the split date are not oldunits.
C23_SplitErrors ==
    [][SplitCalled =>
        /\ pc' = "idle" <=> (RatioMismatch(Head(queue)) \/ UnitsMismatch(Head(queue)))
        /\ UnitsMismatch(Head(queue))
              <=> HeldUnits(Head(queue)) # Decimal(invtrans[Head(queue)].oldunits)]_vars

\* a split with a consistent ratio is about to be applied to a holding that
\* is not oldunits
C23_Witness ==
    /\ SplitCalled
    /\ ~RatioMismatch(Head(queue))
    /\ InForce(invtrans[Head(queue)].dttrade, None, invtrans[Head(queue)].secinfo) # {}
    /\ UnitsMismatch(Head(queue))

(***************************************************************************)
(* C24  Transfer unit mismatch.                                            *)
(***************************************************************************)
\* the other record of the transfer pair of i: same account, date and memo
Twins(i) ==
    {j \in DOMAIN invtrans :
        /\ j # i
        /\ invtrans[j].kind = "TRANSFER"
        /\ invtrans[j].acctfrom = invtrans[i].acctfrom
        /\ invtrans[j].dttrade = invtrans[i].dttrade
        /\ invtrans[j].memo.text = invtrans[i].memo.text}

\* the driver is about to hand IBKR.doTransfer the first record of a well
\* formed pair: neither record is in the log, the memo names the record's
\* security and the units have opposite signs
PairCalled ==
    /\ pc = "ingest"
    /\ queue # <<>>
    /\ doInvtran(Head(queue)) = "doTransfer"
    /\ Head(queue) \notin Range(ofxlog)
    /\ invtrans[Head(queue)].memo.text # ""
    /\ invtrans[Head(queue)].memo.paren = uniqueid(invtrans[Head(queue)].secinfo)
    /\ \E j \in Twins(Head(queue)) :
        /\ Twins(Head(queue)) = {j}
        /\ j \notin Range(ofxlog)
        /\ invtrans[Head(queue)].units * invtrans[j].units < 0

\* the record of the pair of i that takes units out
Outgoing(i) ==
    IF invtrans[i].units < 0 THEN i ELSE CHOOSE j \in Twins(i) : TRUE

\* the account's lots of the outgoing security in force at the transfer date
OutLots(i) ==
    InForce(invtrans[i].dttrade, invtrans[i].acctfrom, invtrans[Outgoing(i)].secinfo)

\* the account holds the outgoing security, and not the units taken out
OutMismatch(i) ==
    /\ OutLots(i) # {}
    /\ SetSum([k \in DOMAIN lots |-> lots[k].units], OutLots(i))
          # Decimal(0 - invtrans[Outgoing(i)].units)

\* C24: when the account's lots of the outgoing security in force at the
\* transfer date do not add up to the units the outgoing record takes out,
\* IBKR.doTransfer raises, the run ends, and no lot is ended or started by
\* either record of the pair, whichever record comes first.
C24_TransferMismatch ==
    [][(PairCalled /\ OutMismatch(Head(queue))) =>
        /\ pc' = "idle"
        /\ \A l \in DOMAIN lots' :
              /\ lots'[l].ender \notin {Head(queue)} \cup Twins(Head(queue))
              /\ lots'[l].starter \notin {Head(queue)} \cup Twins(Head(queue))
        /\ lots' = db.lots]_vars

(***************************************************************************)
(* C25  Lot date ordering.                                                 *)
(***************************************************************************)
\* C25: every lot of the session and of the database has dtopen <= dtstart,
\* dtstart <= dtclose when dtclose is set and dtstart <= dtend when dtend is
\* set.
C25_DateOrdering ==
    \A ls \in {lots, db.lots} : \A l \in DOMAIN ls :
        /\ ls[l].dtopen <= ls[l].dtstart
        /\ ls[l].dtclose # None => ls[l].dtstart <= ls[l].dtclose
        /\ ls[l].dtend # None => ls[l].dtstart <= ls[l].dtend

\* a lot that succeeded another after its opening and was closed later
\* still: dtopen < dtstart < dtclose = dtend
C25_Witness ==
    \E l \in DOMAIN lots :
        /\ lots[l].predecessor # None
        /\ lots[l].dtopen < lots[l].dtstart
        /\ lots[l].dtclose # None
        /\ lots[l].dtstart < lots[l].dtclose
        /\ lots[l].dtend = lots[l].dtclose

(***************************************************************************)
(* C26  Long-term classification.                                          *)
(***************************************************************************)
\* the days from the opening of the gain's lot to the gain's transaction
DaysHeld(g) == invtrans[gains[g].transaction].dttrade - lots[gains[g].lot].dtopen

\* C26: a gain on a lot with units > 0 is long-term if more than 365 days lie
\* between the lot's dtopen and the dttrade of the gain's transaction, and
\* short-term at 365 days or fewer; a gain on a lot with units < 0 is never
\* long-term.
C26_LongTerm ==
    \A g \in DOMAIN gains :
        /\ (RSign(lots[gains[g].lot].units) > 0 /\ DaysHeld(g) >= 366) => isLongTerm(Sess, g)
        /\ (RSign(lots[gains[g].lot].units) > 0 /\ DaysHeld(g) <= 365) => ~isLongTerm(Sess, g)
        /\ RSign(lots[gains[g].lot].units) < 0 => ~isLongTerm(Sess, g)

\* two gains on long lots opened on the same day, one realised 365 days
\* later (short-term) and one 366 days later (long-term)
C26_Witness ==
    \E g, h \in DOMAIN gains :
        /\ RSign(lots[gains[g].lot].units) > 0
        /\ RSign(lots[gains[h].lot].units) > 0
        /\ lots[gains[g].lot].dtopen = lots[gains[h].lot].dtopen
        /\ DaysHeld(g) = 365
        /\ DaysHeld(h) = 366
        /\ ~isLongTerm(Sess, g)
        /\ isLongTerm(Sess, h)

(***************************************************************************)
(* C27  Lot CSV round trip.                                                *)
(***************************************************************************)
\* a dump of the lots in force at some date has been loaded
Loaded == pc = "idle" /\ pc' = "idle" /\ Len(lots') > Len(lots)

\* the lots in force at dtasof, in the order of the dump
Dumped(dtasof) ==
    asOf(lots, IF dtasof = None THEN datetime_max ELSE dtasof, None, None)

\* C27: the lots loaded from a dump of the lots in force at a date are, one
\* for one, lots with the account, security, dtopen, dtstart, units, cost
\* and washcost of the dumped lots.
C27_CsvRoundTrip ==
    [][Loaded =>
        \E dtasof \in Dates \cup {None} :
            /\ Len(lots') = Len(lots) + Len(Dumped(dtasof))
            /\ \A k \in DOMAIN Dumped(dtasof) :
                LET lot == lots'[Len(lots) + k]
                    oldlot == lots[Dumped(dtasof)[k]]
                IN  /\ lot.account = oldlot.account
                    /\ lot.security = oldlot.security
                    /\ lot.dtopen = oldlot.dtopen
                    /\ lot.dtstart = oldlot.dtstart
                    /\ lot.units = oldlot.units
                    /\ lot.cost = oldlot.cost
                    /\ lot.washcost = oldlot.washcost]_vars

(***************************************************************************)
(* C28  Closing a lot.                                                     *)
(***************************************************************************)
\* the driver hands Lot.trade a trade that is not in the log, and the
\* handler returns
TradeApplied == Handled /\ doInvtran(Head(queue)) = "trade" /\ Head(queue) \notin Range(ofxlog)

\* the walk of trade i reaches candidate l with units left to close
Reached(i, l) ==
    /\ l \in Candidates(i)
    /\ RSign(Remaining(i, l)) * invtrans[i].units > 0

\* C28: every lot a trade closes, in whole or in part, gets dtclose = dtend =
\* the trade's dttrade and closer = ender = the trade, and exactly one new
\* gain, with transaction = the trade, washloss = 0 and proceeds =
\* (lot.units / trade.units) x (-trade.total) on the units the lot has after
\* the close; the trade closes no other lot and makes no other gain.
C28_Close ==
    [][TradeApplied =>
        LET i == Head(queue)
        IN  /\ \A l \in DOMAIN lots :
                IF Reached(i, l)
                THEN /\ lots'[l].dtclose = invtrans[i].dttrade
                     /\ lots'[l].dtend = invtrans[i].dttrade
                     /\ lots'[l].closer = i
                     /\ lots'[l].ender = i
                     /\ \E g \in NewGains :
                         /\ \A h \in NewGains : gains'[h].lot = l => h = g
                         /\ gains'[g].lot = l
                         /\ gains'[g].transaction = i
                         /\ gains'[g].washloss = Zero
                         /\ gains'[g].proceeds =
                              RMul(RDiv(lots'[l].units, Decimal(invtrans[i].units)),
                                   Decimal(0 - invtrans[i].total))
                ELSE /\ lots'[l].closer = lots[l].closer
                     /\ lots'[l].dtclose = lots[l].dtclose
                     /\ \A g \in NewGains : gains'[g].lot # l
            /\ \A g \in DOMAIN gains : gains'[g] = gains[g]
            /\ \A g \in NewGains : gains'[g].lot \in DOMAIN lots]_vars

\* one trade has closed a lot in whole and the next lot in part: two gains
\* of the trade on two lots, whose proceeds share the trade's total in
\* proportion to the units closed, and an open residual
C28_Witness ==
    \E g, h \in DOMAIN gains : \E r \in DOMAIN lots :
        /\ g # h
        /\ gains[g].transaction = gains[h].transaction
        /\ gains[g].lot # gains[h].lot
        /\ lots[gains[g].lot].closer = gains[g].transaction
        /\ lots[gains[h].lot].closer = gains[h].transaction
        /\ lots[r].opener = lots[gains[h].lot].opener
        /\ r # gains[h].lot
        /\ lots[r].closer = None
        /\ lots[r].predecessor = None
        /\ RAdd(gains[g].proceeds, gains[h].proceeds)
              = Decimal(invtrans[gains[g].transaction].total)

(***************************************************************************)
(* C29  Opening a lot.                                                     *)
(***************************************************************************)
\* the units of trade i that its candidates do not take up
Leftover(i) ==
    LET all == SetSum([k \in DOMAIN lots |-> lots[k].units], Candidates(i))
    IN  IF RLt(RAbs(all), RAbs(Decimal(invtrans[i].units)))
        THEN RAdd(Decimal(invtrans[i].units), all)
        ELSE Zero

\* the lots of the next state that trade i opened
Opened(i) == {l \in DOMAIN lots' : lots'[l].opener = i}

\* C29: Lot.trade opens a lot exactly when units are left after the walk;
\* the lot has the units left, cost = -trade.total, dtopen = dtstart =
\* trade.dttrade, opener = starter = the trade, and dtclose and dtend null.
C29_Open ==
    [][TradeApplied =>
        LET i == Head(queue)
        IN  /\ Leftover(i) = Zero => Opened(i) = {}
            /\ Leftover(i) # Zero =>
                /\ Opened(i) = {Len(lots')}
                /\ Len(lots') > Len(lots)
                /\ lots'[Len(lots')] =
                      Lot(invtrans[i].acctfrom, invtrans[i].secinfo, Leftover(i),
                          Decimal(0 - invtrans[i].total), Zero,
                          invtrans[i].dttrade, i, invtrans[i].dttrade, i,
                          None, None, None, None, None)]_vars

\* a trade has closed a lot and opened a lot with the units left over, at a
\* cost of the whole of -total
C29_Witness ==
    \E l, k \in DOMAIN lots :
        /\ lots[l].opener # None
        /\ lots[k].closer = lots[l].opener
        /\ lots[l].starter = lots[l].opener
        /\ lots[l].units # Decimal(invtrans[lots[l].opener].units)
        /\ lots[l].units = RAdd(Decimal(invtrans[lots[l].opener].units), lots[k].units)
        /\ lots[l].cost = Decimal(0 - invtrans[lots[l].opener].total)
        /\ lots[l].dtclose = None

(***************************************************************************)
(* C30  Split successors.                                                  *)
(***************************************************************************)
\* the driver hands Lot.split a split that is not in the log, and the
\* handler returns
SplitApplied == SplitCalled /\ pc' = "ingest"

\* the lots of the split's security in force at the split date
SplitLots(i) == InForce(invtrans[i].dttrade, None, invtrans[i].secinfo)

\* C30: Lot.split ends every lot of the security in force at the split date,
\* long or short (ender = the split, dtend = its date), and gives each one
\* successor with units = lot.units x newunits/oldunits, the lot's account,
\* security, cost, washcost, dtopen and opener, predecessor = the lot,
\* dtstart and starter = the split; no other lot changes or is made, no
\* gain changes, and the cost and the washcost of the lots in force add up
\* to what they did.
C30_SplitSuccessors ==
    [][SplitApplied =>
        LET i == Head(queue)
            ratio == RDiv(Decimal(invtrans[i].newunits), Decimal(invtrans[i].oldunits))
        IN  /\ \A l \in DOMAIN lots :
                IF l \in SplitLots(i)
                THEN /\ lots'[l] = [lots[l] EXCEPT !.ender = i, !.dtend = invtrans[i].dttrade]
                     /\ \E m \in NewLots :
                         /\ \A n \in NewLots : lots'[n].predecessor = l => n = m
                         /\ lots'[m] =
                              Lot(lots[l].account, lots[l].security,
                                  RMul(lots[l].units, ratio), lots[l].cost,
                                  lots[l].washcost, lots[l].dtopen, lots[l].opener,
                                  invtrans[i].dttrade, i, None, None, None, None, l)
                ELSE lots'[l] = lots[l]
            /\ \A m \in NewLots : lots'[m].predecessor \in SplitLots(i)
            /\ gains' = gains
            /\ SetSum([k \in DOMAIN lots' |-> lots'[k].cost], NewLots)
                  = SetSum([k \in DOMAIN lots |-> lots[k].cost], SplitLots(i))
            /\ SetSum([k \in DOMAIN lots' |-> lots'[k].washcost], NewLots)
                  = SetSum([k \in DOMAIN lots |-> lots[k].washcost], SplitLots(i))]_vars

\* a split has given successors to a long lot and to a short lot, each with
\* the units of its predecessor times newunits/oldunits
C30_Witness ==
    \E m, n \in DOMAIN lots :
        /\ lots[m].starter = lots[n].starter
        /\ lots[m].starter # None
        /\ invtrans[lots[m].starter].kind = "SPLIT"
        /\ lots[m].predecessor # None
        /\ lots[n].predecessor # None
        /\ RSign(lots[m].units) > 0
        /\ RSign(lots[n].units) < 0
        /\ RMul(lots[m].units, Decimal(invtrans[lots[m].starter].oldunits))
              = RMul(lots[lots[m].predecessor].units, Decimal(invtrans[lots[m].starter].newunits))
        /\ lots[m].units # lots[lots[m].predecessor].units
        /\ lots[lots[n].predecessor].ender = lots[n].starter

(***************************************************************************)
(* C31  Transfer successors.                                               *)
(***************************************************************************)
\* the account's lots of the security of record r in force at its date
HeldOf(r) == InForce(invtrans[r].dttrade, invtrans[r].acctfrom, invtrans[r].secinfo)

\* record r is the side of its pair that the held lots match: the account
\* holds lots of its security and they add up to the units it takes out
MatchesHeld(r) ==
    /\ HeldOf(r) # {}
    /\ SetSum([k \in DOMAIN lots |-> lots[k].units], HeldOf(r)) = Decimal(0 - invtrans[r].units)

\* IBKR.doTransfer is handed the first record of a well formed pair and
\* returns
PairApplied == PairCalled /\ pc' = "ingest"

TransferLogged ==
    /\ pc = "ingest"
    /\ queue # <<>>
    /\ doInvtran(Head(queue)) = "doTransfer"
    /\ Head(queue) \in Range(ofxlog)

\* the lots of the next state that succeed lot l
Successors(l) == {m \in DOMAIN lots' : lots'[m].predecessor = l}

\* C32: a call of IBKR.doTransfer on one record of a pair that returns
\* leaves both records in the log; a call on a logged record changes
\* nothing; successors started by a transfer record are made only by the
\* call on the first record of its pair; and when the account's lots of the outgoing
\* security add up to the units taken out, that call, whichever record it
\* is for, ends each of them by the outgoing record with exactly one
\* successor.
C32_PairOnce ==
    [][/\ PairApplied =>
            ({Head(queue)} \cup Twins(Head(queue))) \subseteq Range(ofxlog')
       /\ TransferLogged =>
            lots' = lots /\ gains' = gains /\ ofxlog' = ofxlog /\ pc' = "ingest"
       /\ \A m \in NewLots :
            (lots'[m].predecessor # None /\ invtrans[lots'[m].starter].kind = "TRANSFER") =>
                PairApplied /\ lots'[m].starter \in {Head(queue)} \cup Twins(Head(queue))
       /\ (PairApplied /\ MatchesHeld(Outgoing(Head(queue)))) =>
            \A l \in OutLots(Head(queue)) :
                /\ lots'[l].ender = Outgoing(Head(queue))
                /\ Cardinality(Successors(l)) = 1]_vars

(***************************************************************************)
(* C33  Income booked as return of capital.                                *)
(***************************************************************************)
\* the driver hands IBKR.doIncome an income that is not in the log
IncomeCalled ==
    /\ pc = "ingest"
    /\ queue # <<>>
    /\ doInvtran(Head(queue)) = "doIncome"
    /\ Head(queue) \notin Range(ofxlog)

\* the expenses that reverse income i: same date, negated total, a memo
\* that begins with the income's memo text
Reversing(i) ==
    {j \in DOMAIN invtrans :
        /\ invtrans[j].kind = "INVEXPENSE"
        /\ invtrans[j].dttrade = invtrans[i].dttrade
        /\ invtrans[j].total = 0 - invtrans[i].total
        /\ like(invtrans[j].memo, invtrans[i].memo.text)}

\* the step is what Lot.returnOfCapital(invtran, checklog=False) does to the
\* session in which income i is logged
AsReturnOfCapital(i) ==
    LET r == returnOfCapital([Sess EXCEPT !.ofxlog = Append(ofxlog, i)], i, FALSE)
    IN  /\ pc' = "ingest" => lots' = r.s.lots /\ gains' = r.s.gains /\ ofxlog' = r.s.ofxlog
        /\ pc' # "ingest" => r.err \/ \E l \in DOMAIN r.s.lots : ~CheckConstraint(r.s.lots[l])

\* the step logs income i and its reversing expense and changes no lot or gain
Discarded(i) ==
    /\ pc' = "ingest"
    /\ lots' = lots
    /\ gains' = gains
    /\ i \in Range(ofxlog')
    /\ \E j \in Reversing(i) : j \in Range(ofxlog')

\* the step logs income i and changes nothing else
LoggedOnly(i) ==
    /\ pc' = "ingest"
    /\ lots' = lots
    /\ gains' = gains
    /\ ofxlog' = Append(ofxlog, i)

\* C33 as stated: IBKR.doIncome applies Lot.returnOfCapital, once and with
\* the log check bypassed, when the memo contains 'return of capital' in
\* any case and no expense reverses the income; with a reversing expense it
\* logs both records and changes no lot or gain; without the phrase it logs
\* the income and changes no lot or gain.
C33_IncomeByPhrase ==
    [][IncomeCalled =>
        LET i == Head(queue)
        IN  IF ~phrase(invtrans[i].memo) THEN LoggedOnly(i)
            ELSE IF Reversing(i) # {} THEN Discarded(i)
            ELSE AsReturnOfCapital(i)]_vars

\* C33 amended: the same, for a memo of the form "<text> (Return of
\* Capital)" in any case; on a memo that contains the phrase in another form
\* IBKR.doIncome raises, and the run ends with the session as last
\* committed.
C33_IncomeByMemoForm ==
    [][IncomeCalled =>
        LET i == Head(queue)
        IN  IF ~phrase(invtrans[i].memo) THEN LoggedOnly(i)
            ELSE IF ~retofcapMemoRE(invtrans[i].memo)
            THEN pc' = "idle" /\ lots' = db.lots /\ gains' = db.gains /\ ofxlog' = db.ofxlog
            ELSE IF Reversing(i) # {} THEN Discarded(i)
            ELSE AsReturnOfCapital(i)]_vars

\* IBKR.doIncome is about to be called, on a long position and with no
\* reversing expense, for an income whose memo has the phrase outside
\* parentheses
C33_Witness ==
    /\ IncomeCalled
    /\ phrase(invtrans[Head(queue)].memo)
    /\ ~retofcapMemoRE(invtrans[Head(queue)].memo)
    /\ Reversing(Head(queue)) = {}
    /\ LongsAt(Head(queue)) # {}

(***************************************************************************)
(* C34  Wash sale: the loss lot is partitioned when the replacement units  *)
(* fall short.                                                             *)
(***************************************************************************)
\* the replacement units of gain g are fewer than the units of its lot
FallsShort(g) == RLt(RAbs(ReplacementUnits(g)), RAbs(lots[LossLot(g)].units))

\* the lots the call inserted as copies of the loss lot of gain g
Unwashed(g) ==
    {m \in NewLots : /\ lots'[m].opener = lots[LossLot(g)].opener
                     /\ lots'[m].closer = lots[LossLot(g)].closer
                     /\ lots'[m].dtstart = lots[LossLot(g)].dtstart}

\* C34: when the replacement units fall short of the loss lot's units, a call
\* of Gain.doWashSale that returns leaves the loss lot with units = effective
\* (the replacement units) and the proportional cost, the loss gain with the
\* proportional proceeds and washloss = effective * (value / original units),
\* and exactly one new lot copied from the loss lot: it holds the unwashed
\* units with the rest of the cost, washcost 0 and the loss lot's account,
\* security, dtopen, opener, dtclose, closer, dtstart, starter, dtend and
\* ender, and carries for each gain of the loss lot one gain on the same
\* transaction with the unwashed share of the proceeds and washloss 0.
C34_LossLotPartition ==
    [][(Evaluates /\ Qualifies(Head(washq)) /\ FallsShort(Head(washq))) =>
        LET g == Head(washq)
            id == LossLot(g)
            lot == lots[id]
            effective == WashedUnits(g)
            share == RDiv(effective, lot.units)
            rest == RSub(lot.units, effective)
            on == {h \in DOMAIN gains : gains[h].lot = id}
        IN  /\ lots'[id] = [lot EXCEPT !.units = effective, !.cost = RMul(share, lot.cost)]
            /\ gains'[g].proceeds = RMul(share, gains[g].proceeds)
            /\ gains'[g].washloss = RMul(effective, UnitLoss(g))
            /\ Cardinality(Unwashed(g)) = 1
            /\ \A m \in Unwashed(g) :
                /\ lots'[m] = [lot EXCEPT !.units = rest,
                                          !.cost = RSub(lot.cost, RMul(share, lot.cost)),
                                          !.washcost = Zero,
                                          !.predecessor = None]
                /\ \A h \in on :
                    Cardinality({k \in NewGains :
                        /\ gains'[k].lot = m
                        /\ gains'[k].transaction = gains[h].transaction
                        /\ gains'[k].proceeds = RMul(RDiv(rest, lot.units), gains[h].proceeds)
                        /\ gains'[k].washloss = Zero}) = 1]_vars

(***************************************************************************)
(* C35  A wash-sale pass conserves units, cost and proceeds.               *)
(***************************************************************************)
\* the lots of account a and security sec after the step
LotsAfter(a, sec) ==
    {l \in DOMAIN lots' : lots'[l].account = a /\ lots'[l].security = sec}

\* the gains on transaction i before and after the step
GainsOn(i) == {g \in DOMAIN gains : gains[g].transaction = i}

GainsOnAfter(i) == {g \in DOMAIN gains' : gains'[g].transaction = i}

C36_RolledWereTallied ==
    [][Evaluates =>
        LET g == Head(washq)
        IN  /\ Rolled \subseteq Replacements(g)
            /\ Cardinality(Unwashed(g)) <= 1
            /\ \A m \in Unwashed(g) : lots'[m].washcost = Zero]_vars

(***************************************************************************)
(* C37  A superseded lot is no replacement lot.                            *)
(***************************************************************************)
\* lot l was ended by a record that gave it a successor, not by a closing trade
Superseded(l) == lots[l].dtclose = None /\ lots[l].dtend # None

\* C37: in a call of Gain.doWashSale that passes its guards and returns, no
\* superseded lot is among the replacement lots the call tallies, and no
\* superseded lot receives washcost.
C37_SupersededNotReplacement ==
    [][(Evaluates /\ Qualifies(Head(washq))) =>
        /\ \A l \in Replacements(Head(washq)) : ~Superseded(l)
        /\ \A l \in Rolled : l \in DOMAIN lots => ~Superseded(l)]_vars

(***************************************************************************)
(* C38  A return of capital changes only lots of its own account.          *)
(***************************************************************************)
\* C38: a call of Lot.returnOfCapital that returns changes no lot of an
\* account other than the record's, inserts no lot of another account and no
\* gain on a lot of another account.
C38_RetofcapOwnAccount ==
    [][(RetofcapCalled /\ Handled) =>
        LET A == invtrans[Head(queue)].acctfrom
        IN  /\ \A l \in DOMAIN lots : lots[l].account # A => lots'[l] = lots[l]
            /\ \A m \in NewLots : lots'[m].account = A
            /\ \A g \in NewGains : lots'[gains'[g].lot].account = A]_vars

(***************************************************************************)
(* C39  Closed-lot invariant.                                              *)
(***************************************************************************)
\* the gains on lot l whose transaction is the lot's closer
ClosingGains(l) ==
    {g \in DOMAIN gains : gains[g].lot = l /\ gains[g].transaction = lots[l].closer}

\* the dates of the model from date d on, d and the day after it among them
DatesFrom(d) == {e \in Dates \cup {d, d + 1, datetime_max} : e >= d}

handler(s, i) ==
    CASE doInvtran(i) = "trade" -> trade(s, i)
      [] doInvtran(i) = "returnOfCapital" -> returnOfCapital(s, i, TRUE)
      [] doInvtran(i) = "split" -> split(s, i)
      [] doInvtran(i) = "doTransfer" -> doTransfer(s, i)
      [] doInvtran(i) = "doIncome" -> doIncome(s, i)
      [] OTHER -> Ok(s)

\* the flush that follows a handler: a row that breaks a CHECK constraint raises
flush(r) ==
    [err |-> r.err \/ \E l \in DOMAIN r.s.lots : ~CheckConstraint(r.s.lots[l]), s |-> r.s]

\* the loop of Lot.doInvtrans over the rows q; w is [err, s]
RECURSIVE doInvtransLoop(_, _)
doInvtransLoop(q, w) ==
    IF q = <<>> \/ w.err THEN w
    ELSE doInvtransLoop(Tail(q), flush(handler(w.s, Head(q))))

\* the loop of Gain.doWashSales over the gains q
RECURSIVE doWashSalesLoop(_, _)
doWashSalesLoop(q, w) ==
    IF q = <<>> \/ w.err THEN w
    ELSE doWashSalesLoop(Tail(q), flush(doWashSale(w.s, Head(q))))

\* calc over window w on ledger s: Lot.doInvtrans, then Gain.doWashSales
calcRun(s, w) ==
    LET a == doInvtransLoop(doInvtrans(w[1], w[2]), [err |-> FALSE, s |-> s])
    IN  IF a.err THEN a ELSE doWashSalesLoop(doWashSales(a.s, w[1], w[2]), a)

\* every run that commits ends with the ledger calcRun computes
CalcRunIsCalc ==
    [][Commit => (~calcRun(db0, window).err /\ calcRun(db0, window).s = Sess)]_vars

\* a lot and a gain without their row ids
LotRow(s, l) ==
    [account |-> s.lots[l].account, security |-> s.lots[l].security,
     units |-> s.lots[l].units, cost |-> s.lots[l].cost,
     washcost |-> s.lots[l].washcost, dtopen |-> s.lots[l].dtopen,
     dtclose |-> s.lots[l].dtclose]

GainRow(s, g) ==
    [lot |-> LotRow(s, s.gains[g].lot), transaction |-> s.gains[g].transaction,
     proceeds |-> s.gains[g].proceeds, washloss |-> s.gains[g].washloss]

\* how many times each lot and each gain occurs in ledger s
LotRows(s) ==
    [r \in {LotRow(s, l) : l \in DOMAIN s.lots} |->
        Cardinality({l \in DOMAIN s.lots : LotRow(s, l) = r})]

GainRows(s) ==
    [r \in {GainRow(s, g) : g \in DOMAIN s.gains} |->
        Cardinality({g \in DOMAIN s.gains : GainRow(s, g) = r})]

SameLedger(s, t) == LotRows(s) = LotRows(t) /\ GainRows(s) = GainRows(t)

\* C40: when calc from day 31 on commits, having started from the ledger that
\* calc up to day 31 makes of the transactions on an empty ledger, the ledger
\* holds the same lots and gains (units, cost, washcost, proceeds, washloss)
\* as one calc over all dates makes of the same transactions.
C40_WindowSplitting ==
    [][(/\ Commit
        /\ window = <<31, None>>
        /\ ~calcRun(EmptyLedger, <<None, 31>>).err
        /\ db0 = calcRun(EmptyLedger, <<None, 31>>).s
        /\ ~calcRun(EmptyLedger, <<None, None>>).err)
       => SameLedger(Sess, calcRun(EmptyLedger, <<None, None>>).s)]_vars

====
